---- MODULE Spec2Model ----
(***************************************************************************)
(* Golden hour walk planner: the weather-to-outfit decision engine.        *)
(*                                                                         *)
(*   - the condition classifier (getWeatherCondition, two copies),         *)
(*   - the forecast-time outfit generator (generateOutfitRecommendations)  *)
(*     and the live-check generator (generateOutfitForCurrentConditions),  *)
(*   - the forecast/actual comparator (compareForecastToActual) with its   *)
(*     summary, and the update decision (shouldUpdateOutfit).              *)
(*                                                                         *)
(* Strings the code inspects character by character (condition labels)    *)
(* are sequences of one-character strings; strings the code only builds    *)
(* (clothing items, summary fragments) are TLA+ strings.                   *)
(***************************************************************************)
EXTENDS Integers, Sequences, FiniteSets, TLC

VARIABLES
    pc,               \* which operation has produced the current result
    weather,          \* snapshot handed to an outfit generator
    tempUnit,         \* "celsius" | "fahrenheit"
    speedUnit,        \* "kmh" | "mph"
    recommendations,  \* { outerwear, shoes, accessories } returned
    code,             \* WMO weather code handed to the classifier
    condition,        \* [forecast |-> label, live |-> label] of the two copies
    forecast,         \* forecast snapshot of a current-weather check
    current,          \* the reading getCurrentConditions returns
    comparison,       \* result of compareForecastToActual
    decision,         \* result of shouldUpdateOutfit
    request,          \* arguments / body of the call being served
    response,         \* what the call returned
    planner,          \* React state of the SunsetWalkPlanner component
    inflight,         \* fetches the planner has issued and not yet seen answered
    upstream          \* what the providers and the server's clock answer

vars == <<pc, weather, tempUnit, speedUnit, recommendations, code, condition,
          forecast, current, comparison, decision, request, response,
          planner, inflight, upstream>>

-----------------------------------------------------------------------------
(* Bounds of the model                                                     *)

\* temperatures range over -TempBelow .. MaxTemp (covers every threshold of
\* both unit systems: 0/4/7/10/15/21/24 C and 32/40/45/50/60/70/75 F)
TempBelow == 3
MaxTemp == 80
\* weather codes range over -CodeBelow .. MaxCode
CodeBelow == 2
MaxCode == 150
\* forecast-vs-actual deltas range over -MaxDelta .. MaxDelta
MaxDelta == 11

-----------------------------------------------------------------------------
(* JavaScript string and array primitives                                  *)

UpperCase == <<"A","B","C","D","E","F","G","H","I","J","K","L","M",
               "N","O","P","Q","R","S","T","U","V","W","X","Y","Z">>
LowerCase == <<"a","b","c","d","e","f","g","h","i","j","k","l","m",
               "n","o","p","q","r","s","t","u","v","w","x","y","z">>

\* String.prototype.toLowerCase, one character
toLowerChar(c) ==
    IF \E i \in DOMAIN UpperCase : UpperCase[i] = c
    THEN LowerCase[CHOOSE i \in DOMAIN UpperCase : UpperCase[i] = c]
    ELSE c

\* String.prototype.toLowerCase
toLowerCase(s) == [i \in DOMAIN s |-> toLowerChar(s[i])]

\* String.prototype.includes
includes(s, needle) ==
    \E i \in 1..(Len(s) - Len(needle) + 1) :
        SubSeq(s, i, i + Len(needle) - 1) = needle

\* the characters of a string as the string itself (template interpolation)
RECURSIVE str(_)
str(s) == IF s = <<>> THEN "" ELSE Head(s) \o str(Tail(s))

\* Array.prototype.includes
arrayIncludes(list, item) == \E i \in DOMAIN list : list[i] = item

\* Array.prototype.slice(0, n)
slice0(list, n) == SubSeq(list, 1, IF Len(list) < n THEN Len(list) ELSE n)

\* Math.abs
abs(n) == IF n < 0 THEN -n ELSE n

-----------------------------------------------------------------------------
(* Condition labels                                                        *)

ClearSky     == <<"C","l","e","a","r"," ","s","k","y">>
PartlyCloudy == <<"P","a","r","t","l","y"," ","c","l","o","u","d","y">>
Foggy        == <<"F","o","g","g","y">>
Rainy        == <<"R","a","i","n","y">>
Snowy        == <<"S","n","o","w","y">>
RainShowers  == <<"R","a","i","n"," ","s","h","o","w","e","r","s">>
SnowShowers  == <<"S","n","o","w"," ","s","h","o","w","e","r","s">>
Thunderstorm == <<"T","h","u","n","d","e","r","s","t","o","r","m">>

Labels == {ClearSky, PartlyCloudy, Foggy, Rainy, Snowy, RainShowers,
           SnowShowers, Thunderstorm}

rain  == <<"r","a","i","n">>
snow  == <<"s","n","o","w">>
clear == <<"c","l","e","a","r">>

-----------------------------------------------------------------------------
(* Condition classifier                                                    *)

\* a plausible slip: the bins' upper ends taken exclusively
getWeatherCondition_exclusive(c) ==
    IF c = 0 THEN ClearSky
    ELSE IF c < 3 THEN PartlyCloudy
    ELSE IF c < 48 THEN Foggy
    ELSE IF c < 67 THEN Rainy
    ELSE IF c < 77 THEN Snowy
    ELSE IF c < 82 THEN RainShowers
    ELSE IF c < 86 THEN SnowShowers
    ELSE IF c < 99 THEN Thunderstorm
    ELSE PartlyCloudy

\* lib/mcp/weather-server.ts, used by getCurrentConditions (live path)
getWeatherCondition(c) ==
    IF c = 0 THEN ClearSky
    ELSE IF c <= 3 THEN PartlyCloudy
    ELSE IF c <= 48 THEN Foggy
    ELSE IF c <= 67 THEN Rainy
    ELSE IF c <= 77 THEN Snowy
    ELSE IF c <= 82 THEN RainShowers
    ELSE IF c <= 86 THEN SnowShowers
    ELSE IF c <= 99 THEN Thunderstorm
    ELSE PartlyCloudy

\* outfit-recommendations route, used on the forecast path
getWeatherCondition_forecast(c) ==
    IF c = 0 THEN ClearSky
    ELSE IF c <= 3 THEN PartlyCloudy
    ELSE IF c <= 48 THEN Foggy
    ELSE IF c <= 67 THEN Rainy
    ELSE IF c <= 77 THEN Snowy
    ELSE IF c <= 82 THEN RainShowers
    ELSE IF c <= 86 THEN SnowShowers
    ELSE IF c <= 99 THEN Thunderstorm
    ELSE PartlyCloudy

-----------------------------------------------------------------------------
(* Outfit generators: the three lists the rules push to                    *)

EmptyLists == [outerwear |-> <<>>, shoes |-> <<>>, accessories |-> <<>>]

pushOuterwear(l, item)   == [l EXCEPT !.outerwear = Append(@, item)]
pushShoes(l, item)       == [l EXCEPT !.shoes = Append(@, item)]
pushAccessories(l, item) == [l EXCEPT !.accessories = Append(@, item)]

isCelsius(tu) == tu = "celsius"
isKmh(su) == su = "kmh"

(* ---- forecast-time generator: generateOutfitRecommendations ---- *)

VERY_HOT(tu) == IF isCelsius(tu) THEN 24 ELSE 75
WARM(tu)     == IF isCelsius(tu) THEN 15 ELSE 60
COOL(tu)     == IF isCelsius(tu) THEN 7 ELSE 45
COLD(tu)     == IF isCelsius(tu) THEN 0 ELSE 32
WINDY(su)    == IF isKmh(su) THEN 24 ELSE 15
COOL_TEMP(tu) == IF isCelsius(tu) THEN 10 ELSE 50
CHILLY(tu)   == IF isCelsius(tu) THEN 4 ELSE 40
HOT(tu)      == IF isCelsius(tu) THEN 21 ELSE 70

\* a plausible slip: exclusive band boundaries
forecastBaseLayer_exclusive(l, w, tu) ==
    IF w.temperature > VERY_HOT(tu)
    THEN pushOuterwear(pushOuterwear(l, "Light breathable shirt"), "Tank top or t-shirt")
    ELSE IF w.temperature > WARM(tu)
    THEN pushOuterwear(pushOuterwear(l, "Light jacket"), "Long sleeve shirt")
    ELSE IF w.temperature > COOL(tu)
    THEN pushOuterwear(pushOuterwear(l, "Medium jacket"), "Sweater or hoodie")
    ELSE IF w.temperature > COLD(tu)
    THEN pushOuterwear(pushOuterwear(l, "Heavy coat"), "Insulated jacket")
    ELSE pushOuterwear(pushOuterwear(l, "Winter coat"), "Thermal layers")

\* temperature-based outerwear
forecastBaseLayer(l, w, tu) ==
    IF w.temperature >= VERY_HOT(tu)
    THEN pushOuterwear(pushOuterwear(l, "Light breathable shirt"), "Tank top or t-shirt")
    ELSE IF w.temperature >= WARM(tu)
    THEN pushOuterwear(pushOuterwear(l, "Light jacket"), "Long sleeve shirt")
    ELSE IF w.temperature >= COOL(tu)
    THEN pushOuterwear(pushOuterwear(l, "Medium jacket"), "Sweater or hoodie")
    ELSE IF w.temperature >= COLD(tu)
    THEN pushOuterwear(pushOuterwear(l, "Heavy coat"), "Insulated jacket")
    ELSE pushOuterwear(pushOuterwear(l, "Winter coat"), "Thermal layers")

\* precipitation-based recommendations
forecastPrecipitation(l, w) ==
    IF w.precipitation > 50 \/ includes(toLowerCase(w.condition), rain)
    THEN pushAccessories(pushShoes(pushOuterwear(l, "Rain jacket"),
                                   "Waterproof boots"), "Umbrella")
    ELSE IF w.precipitation > 20
    THEN pushAccessories(l, "Light rain jacket (just in case)")
    ELSE l

\* a plausible slip: the scarf left out of the snow rule
forecastSnow_noScarf(l, w) ==
    IF includes(toLowerCase(w.condition), snow)
    THEN pushAccessories(pushAccessories(
             pushShoes(pushOuterwear(l, "Waterproof winter coat"),
                       "Insulated winter boots"),
             "Winter hat"), "Gloves")
    ELSE l

\* snow-based recommendations
forecastSnow(l, w) ==
    IF includes(toLowerCase(w.condition), snow)
    THEN pushAccessories(pushAccessories(pushAccessories(
             pushShoes(pushOuterwear(l, "Waterproof winter coat"),
                       "Insulated winter boots"),
             "Winter hat"), "Gloves"), "Scarf")
    ELSE l

\* wind-based recommendations
forecastWind(l, w, tu, su) ==
    IF w.windSpeed > WINDY(su)
    THEN LET l1 == pushOuterwear(l, "Windbreaker")
         IN  IF w.temperature < COOL_TEMP(tu)
             THEN pushAccessories(l1, "Ear warmers or hat")
             ELSE l1
    ELSE l

\* temperature-based accessories, cold side
forecastCold(l, w, tu) ==
    IF w.temperature < CHILLY(tu) /\ ~arrayIncludes(l.accessories, "Winter hat")
    THEN LET l1 == pushAccessories(l, "Beanie or winter hat")
         IN  IF ~arrayIncludes(l1.accessories, "Gloves")
             THEN pushAccessories(l1, "Gloves")
             ELSE l1
    ELSE l

\* a plausible slip: the heat floor taken inclusively
forecastHeat_inclusive(l, w, tu) ==
    IF w.temperature >= HOT(tu) /\ includes(toLowerCase(w.condition), clear)
    THEN pushAccessories(pushAccessories(pushAccessories(l,
             "Sunglasses"), "Sun hat"), "Sunscreen")
    ELSE l

\* temperature-based accessories, hot side
forecastHeat(l, w, tu) ==
    IF w.temperature > HOT(tu) /\ includes(toLowerCase(w.condition), clear)
    THEN pushAccessories(pushAccessories(pushAccessories(l,
             "Sunglasses"), "Sun hat"), "Sunscreen")
    ELSE l
\* default shoe recommendations with the first cut-off inclusive
forecastDefaultShoes_inclusive(l, w, tu) ==
    IF Len(l.shoes) = 0
    THEN IF w.temperature >= VERY_HOT(tu)
         THEN pushShoes(pushShoes(l, "Comfortable walking shoes"), "Breathable sneakers")
         ELSE IF w.temperature > COOL(tu)
         THEN pushShoes(pushShoes(l, "Walking shoes"), "Athletic sneakers")
         ELSE pushShoes(pushShoes(l, "Closed-toe shoes"), "Warm sneakers or boots")
    ELSE l

\* default shoe recommendations if not set
forecastDefaultShoes(l, w, tu) ==
    IF Len(l.shoes) = 0
    THEN IF w.temperature > VERY_HOT(tu)
         THEN pushShoes(pushShoes(l, "Comfortable walking shoes"), "Breathable sneakers")
         ELSE IF w.temperature > COOL(tu)
         THEN pushShoes(pushShoes(l, "Walking shoes"), "Athletic sneakers")
         ELSE pushShoes(pushShoes(l, "Closed-toe shoes"), "Warm sneakers or boots")
    ELSE l

\* the lists as the rules leave them, before the return statement slices them
forecastRules(w, tu, su) ==
    forecastDefaultShoes(
        forecastHeat(
            forecastCold(
                forecastWind(
                    forecastSnow(
                        forecastPrecipitation(
                            forecastBaseLayer(EmptyLists, w, tu),
                            w),
                        w),
                    w, tu, su),
                w, tu),
            w, tu),
        w, tu)

\* a plausible slip: the lists returned whole
truncate_none(l) == l

\* the return statement of both generators
truncate(l) ==
    [outerwear   |-> slice0(l.outerwear, 3),
     shoes       |-> slice0(l.shoes, 2),
     accessories |-> slice0(l.accessories, 4)]

generateOutfitRecommendations(w, tu, su) == truncate(forecastRules(w, tu, su))

(* ---- live-check generator: generateOutfitForCurrentConditions ---- *)

HOT_TEMP(tu)       == IF isCelsius(tu) THEN 24 ELSE 75
WARM_TEMP(tu)      == IF isCelsius(tu) THEN 15 ELSE 60
COOL_TEMP_live(tu) == IF isCelsius(tu) THEN 7 ELSE 45
COLD_TEMP(tu)      == IF isCelsius(tu) THEN 0 ELSE 32
VERY_COLD_TEMP(tu) == IF isCelsius(tu) THEN 4 ELSE 40
WINDY_THRESHOLD(su) == IF isKmh(su) THEN 24 ELSE 15

\* a plausible slip: exclusive band boundaries in the live copy
liveBaseLayer_exclusive(l, w, tu) ==
    IF w.temperature > HOT_TEMP(tu)
    THEN pushOuterwear(pushOuterwear(l, "Light breathable shirt"), "Tank top or t-shirt")
    ELSE IF w.temperature > WARM_TEMP(tu)
    THEN pushOuterwear(pushOuterwear(l, "Light jacket"), "Long sleeve shirt")
    ELSE IF w.temperature > COOL_TEMP_live(tu)
    THEN pushOuterwear(pushOuterwear(l, "Medium jacket"), "Sweater or hoodie")
    ELSE IF w.temperature > COLD_TEMP(tu)
    THEN pushOuterwear(pushOuterwear(l, "Heavy coat"), "Insulated jacket")
    ELSE pushOuterwear(pushOuterwear(l, "Winter coat"), "Thermal layers")

\* temperature-based outerwear
liveBaseLayer(l, w, tu) ==
    IF w.temperature >= HOT_TEMP(tu)
    THEN pushOuterwear(pushOuterwear(l, "Light breathable shirt"), "Tank top or t-shirt")
    ELSE IF w.temperature >= WARM_TEMP(tu)
    THEN pushOuterwear(pushOuterwear(l, "Light jacket"), "Long sleeve shirt")
    ELSE IF w.temperature >= COOL_TEMP_live(tu)
    THEN pushOuterwear(pushOuterwear(l, "Medium jacket"), "Sweater or hoodie")
    ELSE IF w.temperature >= COLD_TEMP(tu)
    THEN pushOuterwear(pushOuterwear(l, "Heavy coat"), "Insulated jacket")
    ELSE pushOuterwear(pushOuterwear(l, "Winter coat"), "Thermal layers")

\* precipitation-based recommendations
livePrecipitation(l, w) ==
    IF w.precipitation > 0 \/ includes(toLowerCase(w.condition), rain)
    THEN LET l1 == IF w.precipitation > 5
                   THEN pushShoes(pushOuterwear(l, "Rain jacket"), "Waterproof boots")
                   ELSE l
         IN  pushAccessories(l1, "Umbrella")
    ELSE l

\* snow-based recommendations
liveSnow(l, w) ==
    IF includes(toLowerCase(w.condition), snow)
    THEN pushAccessories(pushAccessories(pushAccessories(
             pushShoes(pushOuterwear(l, "Waterproof winter coat"),
                       "Insulated winter boots"),
             "Winter hat"), "Gloves"), "Scarf")
    ELSE l

\* wind-based recommendations
liveWind(l, w, tu, su) ==
    IF w.windSpeed > WINDY_THRESHOLD(su)
    THEN LET l1 == pushOuterwear(l, "Windbreaker")
         IN  IF w.temperature < (IF isCelsius(tu) THEN 10 ELSE 50)
             THEN pushAccessories(l1, "Ear warmers or hat")
             ELSE l1
    ELSE l

\* temperature-based accessories: winter gear below 40F / 4C
liveCold(l, w, tu) ==
    IF w.temperature < VERY_COLD_TEMP(tu)
    THEN LET l1 == IF ~arrayIncludes(l.accessories, "Winter hat")
                      /\ ~arrayIncludes(l.accessories, "Beanie or winter hat")
                   THEN pushAccessories(l, "Winter hat")
                   ELSE l
             l2 == IF ~arrayIncludes(l1.accessories, "Gloves")
                   THEN pushAccessories(l1, "Gloves")
                   ELSE l1
         IN  IF ~arrayIncludes(l2.accessories, "Scarf")
             THEN pushAccessories(l2, "Scarf")
             ELSE l2
    ELSE l

\* default shoe recommendations if not set
liveDefaultShoes(l, w, tu) ==
    IF Len(l.shoes) = 0
    THEN IF w.temperature > HOT_TEMP(tu)
         THEN pushShoes(pushShoes(l, "Comfortable walking shoes"), "Breathable sneakers")
         ELSE IF w.temperature > (IF isCelsius(tu) THEN 10 ELSE 50)
         THEN pushShoes(pushShoes(l, "Walking shoes"), "Athletic sneakers")
         ELSE pushShoes(pushShoes(l, "Closed-toe shoes"), "Warm sneakers or boots")
    ELSE l

\* the lists as the rules leave them, before the return statement slices them
liveRules(w, tu, su) ==
    liveDefaultShoes(
        liveCold(
            liveWind(
                liveSnow(
                    livePrecipitation(
                        liveBaseLayer(EmptyLists, w, tu),
                        w),
                    w),
                w, tu, su),
            w, tu),
        w, tu)

generateOutfitForCurrentConditions(w, tu, su) == truncate(liveRules(w, tu, su))

-----------------------------------------------------------------------------
(* Idle values of the state                                                *)

NoWeather == [temperature |-> 0, condition |-> <<>>, precipitation |-> 0,
              windSpeed |-> 0]
NoCondition == [forecast |-> <<>>, live |-> <<>>]
NoComparison == [none |-> TRUE]
NoDecision == [none |-> TRUE]
NoRequest == [none |-> TRUE]
NoResponse == [none |-> TRUE]
NoPlanner == [none |-> TRUE]
NoUpstream == [none |-> TRUE]

-----------------------------------------------------------------------------
(* Outfit generation: a snapshot and a unit system go through one of the   *)
(* two generators                                                          *)

Temperatures == (0 - TempBelow)..MaxTemp
\* precipitation values around the rules' cut-offs 0, 5, 20 and 50
PrecipitationValues == {0, 5, 6, 10, 20, 21, 50, 51}
\* wind speeds around the rules' cut-offs 15 (mph) and 24 (km/h)
WindSpeeds == {5, 15, 16, 24, 25}
TempUnits == {"celsius", "fahrenheit"}
SpeedUnits == {"kmh", "mph"}

Snapshots == [temperature : Temperatures, condition : Labels,
              precipitation : PrecipitationValues, windSpeed : WindSpeeds]

InitOutfit ==
    /\ pc = "idle"
    /\ weather \in Snapshots
    /\ tempUnit \in TempUnits
    /\ speedUnit \in SpeedUnits
    /\ recommendations = EmptyLists
    /\ code = 0
    /\ condition = NoCondition
    /\ forecast = NoWeather
    /\ current = NoWeather
    /\ comparison = NoComparison
    /\ decision = NoDecision
    /\ request = NoRequest
    /\ response = NoResponse
    /\ planner = NoPlanner
    /\ inflight = {}
    /\ upstream = NoUpstream

\* outfit-recommendations route: recommendations for the forecast snapshot
OutfitRecommendations ==
    /\ pc = "idle"
    /\ recommendations' = generateOutfitRecommendations(weather, tempUnit, speedUnit)
    /\ pc' = "forecast"
    /\ UNCHANGED <<weather, tempUnit, speedUnit, code, condition, forecast,
                   current, comparison, decision,
                   request, response, planner, inflight, upstream>>

\* check-current-weather route: complete outfit for the live reading
CurrentWeatherOutfit ==
    /\ pc = "idle"
    /\ recommendations' = generateOutfitForCurrentConditions(weather, tempUnit, speedUnit)
    /\ pc' = "live"
    /\ UNCHANGED <<weather, tempUnit, speedUnit, code, condition, forecast,
                   current, comparison, decision,
                   request, response, planner, inflight, upstream>>

NextOutfit == OutfitRecommendations \/ CurrentWeatherOutfit

SpecOutfit == InitOutfit /\ [][NextOutfit]_vars

-----------------------------------------------------------------------------
(* Properties of the outfit generators (checked under SpecOutfit)          *)

generated == pc \in {"forecast", "live"}

\* the lists of the generator that ran, as its rules left them
rawLists ==
    IF pc = "forecast" THEN forecastRules(weather, tempUnit, speedUnit)
                       ELSE liveRules(weather, tempUnit, speedUnit)

isFirstN(out, raw, n) ==
    /\ Len(out) = (IF Len(raw) < n THEN Len(raw) ELSE n)
    /\ \A i \in 1..Len(out) : out[i] = raw[i]

hasSnow == includes(toLowerCase(weather.condition), snow)
hasClear == includes(toLowerCase(weather.condition), clear)

\* C1: both generators return at most 3 outerwear, 2 shoes and 4 accessories,
\* and each returned list is the first-N prefix, in insertion order, of the
\* items the rules appended.
C1_CapsAndPrefix ==
    generated =>
        /\ Len(recommendations.outerwear) <= 3
        /\ Len(recommendations.shoes) <= 2
        /\ Len(recommendations.accessories) <= 4
        /\ isFirstN(recommendations.outerwear, rawLists.outerwear, 3)
        /\ isFirstN(recommendations.shoes, rawLists.shoes, 2)
        /\ isFirstN(recommendations.accessories, rawLists.accessories, 4)

\* both caps bite: five outerwear items and five accessories were appended
C1_Witness ==
    /\ pc = "forecast"
    /\ Len(rawLists.outerwear) = 5
    /\ Len(rawLists.accessories) = 5
    /\ Len(recommendations.outerwear) = 3
    /\ Len(recommendations.accessories) = 4

C2_Thresholds == IF tempUnit = "celsius" THEN <<24, 15, 7, 0>>
                                         ELSE <<75, 60, 45, 32>>

C2_BandItems ==
    << <<"Light breathable shirt", "Tank top or t-shirt">>,
       <<"Light jacket", "Long sleeve shirt">>,
       <<"Medium jacket", "Sweater or hoodie">>,
       <<"Heavy coat", "Insulated jacket">>,
       <<"Winter coat", "Thermal layers">> >>

\* first match, top-down, boundary inclusive
C2_Band ==
    IF weather.temperature >= C2_Thresholds[1] THEN 1
    ELSE IF weather.temperature >= C2_Thresholds[2] THEN 2
    ELSE IF weather.temperature >= C2_Thresholds[3] THEN 3
    ELSE IF weather.temperature >= C2_Thresholds[4] THEN 4
    ELSE 5

\* C2: exactly one base-layer band fires, the first match top-down over
\* 75/60/45/32 F or 24/15/7/0 C; a temperature equal to a boundary selects the
\* higher band, so the band's two items are the first two outerwear items.
C2_OneBandBoundaryInclusive ==
    generated =>
        /\ SubSeq(recommendations.outerwear, 1, 2) = C2_BandItems[C2_Band]
        /\ \A b \in 1..5 :
               b # C2_Band =>
                   \A i \in 1..2 :
                       ~arrayIncludes(recommendations.outerwear, C2_BandItems[b][i])

\* exactly 75 F: the light shirt, not the light jacket
C2_Witness ==
    /\ pc = "forecast"
    /\ tempUnit = "fahrenheit"
    /\ weather.temperature = 75
    /\ recommendations.outerwear[1] = "Light breathable shirt"
    /\ recommendations.outerwear[2] = "Tank top or t-shirt"

C3_Scenario ==
    /\ tempUnit = "fahrenheit"
    /\ speedUnit = "mph"
    /\ weather = [temperature |-> 30, condition |-> Snowy,
                  precipitation |-> 10, windSpeed |-> 5]

C3_SnowAccessories ==
    /\ arrayIncludes(recommendations.shoes, "Insulated winter boots")
    /\ arrayIncludes(recommendations.accessories, "Winter hat")
    /\ arrayIncludes(recommendations.accessories, "Gloves")
    /\ arrayIncludes(recommendations.accessories, "Scarf")

\* C3 as claimed: with a snow label the returned recommendation always holds
\* the waterproof winter coat, the insulated winter boots, winter hat, gloves
\* and scarf; for 30 F, Snowy, precipitation 10, wind 5 the shoes are exactly
\* the insulated winter boots.
C3_Original ==
    generated =>
        /\ hasSnow =>
               /\ arrayIncludes(recommendations.outerwear, "Waterproof winter coat")
               /\ C3_SnowAccessories
        /\ C3_Scenario => recommendations.shoes = <<"Insulated winter boots">>

\* whether the precipitation rule pushed the rain jacket and waterproof boots
C3_RainJacketRule ==
    IF pc = "forecast"
    THEN weather.precipitation > 50 \/ includes(toLowerCase(weather.condition), rain)
    ELSE weather.precipitation > 5

\* C3 amended: with a snow label the insulated winter boots, winter hat,
\* gloves and scarf are always returned; the waterproof winter coat is
\* returned iff the precipitation rule did not push a rain jacket before it
\* (otherwise the rain jacket takes the third and last outerwear slot); for
\* 30 F, Snowy, precipitation 10, wind 5 the forecast generator returns
\* exactly the insulated winter boots, the live generator the waterproof
\* boots followed by the insulated winter boots.
C3_SnowGear ==
    generated =>
        /\ hasSnow =>
               /\ C3_SnowAccessories
               /\ arrayIncludes(recommendations.outerwear, "Waterproof winter coat")
                      <=> ~C3_RainJacketRule
               /\ C3_RainJacketRule =>
                      recommendations.outerwear[3] = "Rain jacket"
        /\ (C3_Scenario /\ pc = "forecast") =>
               recommendations.shoes = <<"Insulated winter boots">>
        /\ (C3_Scenario /\ pc = "live") =>
               recommendations.shoes = <<"Waterproof boots", "Insulated winter boots">>

\* snow with heavy precipitation: the coat is sliced away, the rest is kept
C3_Witness ==
    /\ pc = "forecast"
    /\ weather.condition = Snowy
    /\ weather.precipitation = 51
    /\ recommendations.outerwear[3] = "Rain jacket"
    /\ recommendations.shoes = <<"Waterproof boots", "Insulated winter boots">>
    /\ recommendations.accessories = <<"Umbrella", "Winter hat", "Gloves", "Scarf">>

C4_SunItems == {"Sunglasses", "Sun hat", "Sunscreen"}

\* C4: in the forecast-time generator the accessories hold sunglasses, sun hat
\* and sunscreen whenever the temperature is strictly above 70 F / 21 C and
\* the label contains "clear", and none of the three otherwise; for 80 F,
\* Clear sky, precipitation 0, wind 5 mph the outerwear is exactly the light
\* shirt and the tank top.
C4_HeatAccessories ==
    pc = "forecast" =>
        /\ IF weather.temperature > (IF tempUnit = "celsius" THEN 21 ELSE 70) /\ hasClear
           THEN \A it \in C4_SunItems : arrayIncludes(recommendations.accessories, it)
           ELSE \A it \in C4_SunItems : ~arrayIncludes(recommendations.accessories, it)
        /\ ( /\ tempUnit = "fahrenheit"
             /\ speedUnit = "mph"
             /\ weather = [temperature |-> 80, condition |-> ClearSky,
                           precipitation |-> 0, windSpeed |-> 5] )
           => recommendations.outerwear = <<"Light breathable shirt", "Tank top or t-shirt">>

\* hot and clear with an umbrella already pushed: the cap of 4 is exactly met
C4_Witness ==
    /\ pc = "forecast"
    /\ tempUnit = "fahrenheit"
    /\ weather.temperature = 80
    /\ weather.condition = ClearSky
    /\ recommendations.accessories = <<"Umbrella", "Sunglasses", "Sun hat", "Sunscreen">>

hasRain == includes(toLowerCase(weather.condition), rain)
chillFloor == IF tempUnit = "celsius" THEN 4 ELSE 40
hasWinterHat(list) ==
    arrayIncludes(list, "Winter hat") \/ arrayIncludes(list, "Beanie or winter hat")

\* C16: in the live-check generator, whenever the temperature is below the
\* chill floor (40 F / 4 C) the returned accessories hold a winter hat,
\* 'Gloves' and 'Scarf', whatever other rules fired.
C16_WinterGearReturned ==
    (pc = "live" /\ weather.temperature < chillFloor) =>
        /\ hasWinterHat(recommendations.accessories)
        /\ arrayIncludes(recommendations.accessories, "Gloves")
        /\ arrayIncludes(recommendations.accessories, "Scarf")

\* the footwear gap between the two default-footwear thresholds
inFootwearGap ==
    IF tempUnit = "celsius"
    THEN weather.temperature > 7 /\ weather.temperature <= 10
    ELSE weather.temperature > 45 /\ weather.temperature <= 50

C20_Scope == generated /\ weather.temperature >= chillFloor /\ ~inFootwearGap

bothGeneratorsAgree ==
    generateOutfitRecommendations(weather, tempUnit, speedUnit)
        = generateOutfitForCurrentConditions(weather, tempUnit, speedUnit)

\* the claim as stated: in scope the two generators return the same lists
C20_Original == C20_Scope => bothGeneratorsAgree

\* the two precipitation rules have the same effect
C20_PrecipitationAgrees ==
    \/ weather.precipitation > 50
    \/ hasRain /\ weather.precipitation > 5
    \/ ~hasRain /\ weather.precipitation = 0

\* the forecast-only sun rule fires
C20_SunRuleFires == weather.temperature > HOT(tempUnit) /\ hasClear

\* C20: at or above the chill floor and outside the footwear gap, the
\* forecast-time and the live-check generator return identical
\* recommendations exactly when the two precipitation rules coincide
\* (precipitation over 50, or a rain label with precipitation over 5, or no
\* rain label and precipitation 0) and the forecast-only sun rule (over
\* 70 F / 21 C with a clear label) does not fire.
C20_IdenticalExceptPrecipitationAndSun ==
    C20_Scope => (bothGeneratorsAgree <=> (C20_PrecipitationAgrees /\ ~C20_SunRuleFires))

\* the live generator ran on a rainy, windy snapshot in scope and returned
\* what the forecast generator returns
C20_Witness ==
    /\ pc = "live"
    /\ C20_Scope
    /\ hasRain /\ weather.precipitation = 6
    /\ weather.windSpeed = 25
    /\ recommendations = generateOutfitRecommendations(weather, tempUnit, speedUnit)
    /\ arrayIncludes(recommendations.outerwear, "Rain jacket")

\* the precipitation rule of the generator that ran pushed footwear
rainFootwearAdded ==
    IF pc = "forecast" THEN weather.precipitation > 50 \/ hasRain
                       ELSE weather.precipitation > 5

\* the second cut-off of the default footwear bands
secondaryThreshold ==
    IF pc = "forecast" THEN (IF tempUnit = "celsius" THEN 7 ELSE 45)
                       ELSE (IF tempUnit = "celsius" THEN 10 ELSE 50)

defaultFootwear ==
    IF weather.temperature > (IF tempUnit = "celsius" THEN 24 ELSE 75)
    THEN <<"Comfortable walking shoes", "Breathable sneakers">>
    ELSE IF weather.temperature > secondaryThreshold
    THEN <<"Walking shoes", "Athletic sneakers">>
    ELSE <<"Closed-toe shoes", "Warm sneakers or boots">>

weatherFootwear == {"Waterproof boots", "Insulated winter boots"}

\* C21: default footwear is added only if neither the precipitation rule nor
\* the snow rule added footwear; then shoes is exactly the two items of the
\* matching band (strictly above 75F/24C, else strictly above 45F/7C in the
\* forecast generator and 50F/10C in the live generator, else the closed-toe
\* pair); otherwise shoes holds only rain/snow footwear.  Shoes is never empty
\* and never mixes default with rain/snow footwear.
C21_DefaultFootwear ==
    generated =>
        /\ recommendations.shoes # <<>>
        /\ IF ~rainFootwearAdded /\ ~hasSnow
           THEN recommendations.shoes = defaultFootwear
           ELSE \A i \in DOMAIN recommendations.shoes :
                    recommendations.shoes[i] \in weatherFootwear

\* the forecast generator at exactly 75F without rain or snow: the middle band
C21_Witness ==
    /\ pc = "forecast"
    /\ tempUnit = "fahrenheit"
    /\ weather.temperature = 75
    /\ ~rainFootwearAdded /\ ~hasSnow
    /\ recommendations.shoes = <<"Walking shoes", "Athletic sneakers">>


-----------------------------------------------------------------------------
(* Classification: one weather code goes through both copies of the        *)
(* classifier                                                              *)

Codes == (0 - CodeBelow)..MaxCode

InitClassify ==
    /\ pc = "idle"
    /\ code \in Codes
    /\ condition = NoCondition
    /\ weather = NoWeather
    /\ tempUnit = "fahrenheit"
    /\ speedUnit = "mph"
    /\ recommendations = EmptyLists
    /\ forecast = NoWeather
    /\ current = NoWeather
    /\ comparison = NoComparison
    /\ decision = NoDecision
    /\ request = NoRequest
    /\ response = NoResponse
    /\ planner = NoPlanner
    /\ inflight = {}
    /\ upstream = NoUpstream

\* forecast path: the outfit-recommendations route labels the hourly code
ClassifyForecast ==
    /\ condition.forecast = <<>>
    /\ condition' = [condition EXCEPT !.forecast = getWeatherCondition_forecast(code)]
    /\ pc' = "classified"
    /\ UNCHANGED <<weather, tempUnit, speedUnit, recommendations, code, forecast,
                   current, comparison, decision,
                   request, response, planner, inflight, upstream>>

\* live path: getCurrentConditions labels the current code
ClassifyLive ==
    /\ condition.live = <<>>
    /\ condition' = [condition EXCEPT !.live = getWeatherCondition(code)]
    /\ pc' = "classified"
    /\ UNCHANGED <<weather, tempUnit, speedUnit, recommendations, code, forecast,
                   current, comparison, decision,
                   request, response, planner, inflight, upstream>>

NextClassify == ClassifyForecast \/ ClassifyLive

SpecClassify == InitClassify /\ [][NextClassify]_vars

\* the bins as the design states them
C5_Label ==
    IF code = 0 THEN ClearSky
    ELSE IF code \in 1..3 THEN PartlyCloudy
    ELSE IF code \in 4..48 THEN Foggy
    ELSE IF code \in 49..67 THEN Rainy
    ELSE IF code \in 68..77 THEN Snowy
    ELSE IF code \in 78..82 THEN RainShowers
    ELSE IF code \in 83..86 THEN SnowShowers
    ELSE IF code \in 87..99 THEN Thunderstorm
    ELSE PartlyCloudy

\* C5: the classifier is total with bins 0 / 1..3 / 4..48 / 49..67 / 68..77 /
\* 78..82 / 83..86 / 87..99, every other integer (150, -1) gives "Partly
\* cloudy", and the forecast-path copy and the live-path copy agree.
C5_ClassifierBins ==
    /\ condition.forecast # <<>> => condition.forecast = C5_Label
    /\ condition.live # <<>> => condition.live = C5_Label
    /\ (condition.forecast # <<>> /\ condition.live # <<>>) =>
           condition.forecast = condition.live

\* an out-of-range code labelled by both copies
C5_Witness ==
    /\ code = 150
    /\ condition.forecast = PartlyCloudy
    /\ condition.live = PartlyCloudy

-----------------------------------------------------------------------------
(* Forecast/actual comparator                                              *)

\* Array.prototype.join
RECURSIVE join(_, _)
join(parts, sep) ==
    IF Len(parts) = 0 THEN ""
    ELSE IF Len(parts) = 1 THEN parts[1]
    ELSE parts[1] \o sep \o join(Tail(parts), sep)

\* a plausible slip: the cut-off taken inclusively
factorComparison_inclusive(forecastValue, actualValue, threshold) ==
    [forecast    |-> forecastValue,
     actual      |-> actualValue,
     difference  |-> actualValue - forecastValue,
     significant |-> abs(actualValue - forecastValue) >= threshold]

\* a plausible slip: Math.abs forgotten
factorComparison_signed(forecastValue, actualValue, threshold) ==
    [forecast    |-> forecastValue,
     actual      |-> actualValue,
     difference  |-> actualValue - forecastValue,
     significant |-> (actualValue - forecastValue) > threshold]

\* one numeric factor of the comparison object
factorComparison(forecastValue, actualValue, threshold) ==
    [forecast    |-> forecastValue,
     actual      |-> actualValue,
     difference  |-> actualValue - forecastValue,
     significant |-> abs(actualValue - forecastValue) > threshold]

\* the condition entry of the comparison object
conditionComparison(forecastCondition, actualCondition) ==
    [forecast |-> forecastCondition,
     actual   |-> actualCondition,
     changed  |-> toLowerCase(forecastCondition) # toLowerCase(actualCondition)]

temperatureDirection(c) == IF c.temperature.difference > 0 THEN "warmer" ELSE "cooler"
windDirection(c) == IF c.windSpeed.difference > 0 THEN "windier" ELSE "calmer"

\* a plausible slip: forecast and actual exchanged in the parenthesis
temperatureClause_exchanged(c) ==
    IF c.temperature.significant
    THEN "Temperature is " \o ToString(abs(c.temperature.difference)) \o "° "
             \o temperatureDirection(c) \o " than predicted ("
             \o ToString(c.temperature.forecast) \o "° vs "
             \o ToString(c.temperature.actual) \o "°)"
    ELSE "Temperature is close to forecast (" \o ToString(c.temperature.actual) \o "°)"

temperatureClause(c) ==
    IF c.temperature.significant
    THEN "Temperature is " \o ToString(abs(c.temperature.difference)) \o "° "
             \o temperatureDirection(c) \o " than predicted ("
             \o ToString(c.temperature.actual) \o "° vs "
             \o ToString(c.temperature.forecast) \o "°)"
    ELSE "Temperature is close to forecast (" \o ToString(c.temperature.actual) \o "°)"

windClause(c) ==
    "Wind is " \o ToString(abs(c.windSpeed.difference)) \o " " \o windDirection(c)
        \o " than expected (" \o ToString(c.windSpeed.actual) \o " vs "
        \o ToString(c.windSpeed.forecast) \o ")"

precipitationClause(c) ==
    "Precipitation probability changed significantly ("
        \o ToString(c.precipitation.actual) \o "% vs "
        \o ToString(c.precipitation.forecast) \o "%)"

conditionClause(c) ==
    "Conditions changed from " \o str(c.condition.forecast) \o " to "
        \o str(c.condition.actual)

\* the fragments generateComparisonSummary pushes, in order
summaryParts(c) ==
    <<temperatureClause(c)>>
        \o (IF c.windSpeed.significant THEN <<windClause(c)>> ELSE <<>>)
        \o (IF c.precipitation.significant THEN <<precipitationClause(c)>> ELSE <<>>)
        \o (IF c.condition.changed THEN <<conditionClause(c)>> ELSE <<>>)

generateComparisonSummary(c) == join(summaryParts(c), ". ")

\* compareForecastToActual, given the reading its getCurrentConditions call returned
compareForecastToActual(params, cur) ==
    LET c == [temperature   |-> factorComparison(params.temperature, cur.temperature, 5),
              windSpeed     |-> factorComparison(params.windSpeed, cur.windSpeed, 5),
              precipitation |-> factorComparison(params.precipitation, cur.precipitation, 20),
              condition     |-> conditionComparison(params.condition, cur.condition)]
    IN  [comparison |-> c,
         hasSignificantChanges |->
             c.temperature.significant \/ c.windSpeed.significant
                 \/ c.precipitation.significant,
         summary |-> generateComparisonSummary(c)]

-----------------------------------------------------------------------------
(* Update decision                                                         *)

\* a plausible slip: the precipitation cut-off of the decision reused
severity_low(tempChange, windChange, precipChange) ==
    IF tempChange > 10 \/ windChange > 10 \/ precipChange > 20 THEN "high" ELSE "moderate"

severity(tempChange, windChange, precipChange) ==
    IF tempChange > 10 \/ windChange > 10 \/ precipChange > 40 THEN "high" ELSE "moderate"

\* a plausible slip: the temperature reason pushed at the cut-off itself
reasons_inclusive(tempChange, windChange, precipChange) ==
    (IF tempChange >= 5
        THEN <<"Temperature changed by " \o ToString(tempChange) \o "°F">> ELSE <<>>)
    \o (IF windChange > 5
        THEN <<"Wind speed changed by " \o ToString(windChange) \o " mph">> ELSE <<>>)
    \o (IF precipChange > 20
        THEN <<"Precipitation probability changed by " \o ToString(precipChange) \o "%">>
        ELSE <<>>)

reasons(tempChange, windChange, precipChange) ==
    (IF tempChange > 5
        THEN <<"Temperature changed by " \o ToString(tempChange) \o "°F">> ELSE <<>>)
    \o (IF windChange > 5
        THEN <<"Wind speed changed by " \o ToString(windChange) \o " mph">> ELSE <<>>)
    \o (IF precipChange > 20
        THEN <<"Precipitation probability changed by " \o ToString(precipChange) \o "%">>
        ELSE <<>>)
\* a plausible slip: the decision's temperature cut-off taken inclusively
shouldUpdateOutfit_inclusive(params) ==
    LET tempChange == abs(params.currentTemp - params.originalTemp)
        windChange == abs(params.currentWindSpeed - params.originalWindSpeed)
        precipChange == abs(params.currentPrecipitation - params.originalPrecipitation)
    IN  [shouldUpdate |-> tempChange >= 5 \/ windChange > 5 \/ precipChange > 20,
         reasons      |-> reasons(tempChange, windChange, precipChange),
         severity     |-> severity(tempChange, windChange, precipChange)]

shouldUpdateOutfit(params) ==
    LET tempChange == abs(params.currentTemp - params.originalTemp)
        windChange == abs(params.currentWindSpeed - params.originalWindSpeed)
        precipChange == abs(params.currentPrecipitation - params.originalPrecipitation)
    IN  [shouldUpdate |-> tempChange > 5 \/ windChange > 5 \/ precipChange > 20,
         reasons      |-> reasons(tempChange, windChange, precipChange),
         severity     |-> severity(tempChange, windChange, precipChange)]

-----------------------------------------------------------------------------
(* Comparison: a forecast snapshot is compared with, and the decision      *)
(* taken against, one live reading                                         *)

Deltas == (0 - MaxDelta)..MaxDelta
\* precipitation deltas around the cut-offs 20 and 40
PrecipitationDeltas == {0 - 41, 0 - 40, 0 - 21, 0 - 20, 0, 20, 21, 40, 41}

\* a request may carry any string as the forecast condition
rainyLowerCase == <<"r","a","i","n","y">>

ForecastSnapshots ==
    [temperature : {60}, condition : {Rainy, rainyLowerCase, ClearSky},
     precipitation : {50}, windSpeed : {12}]

InitCompare ==
    /\ pc = "idle"
    /\ forecast \in ForecastSnapshots
    /\ \E dT \in Deltas, dW \in Deltas, dP \in PrecipitationDeltas,
          cond \in {Rainy, ClearSky} :
           current = [temperature   |-> forecast.temperature + dT,
                      condition     |-> cond,
                      precipitation |-> forecast.precipitation + dP,
                      windSpeed     |-> forecast.windSpeed + dW]
    /\ tempUnit \in TempUnits
    /\ speedUnit = (IF tempUnit = "celsius" THEN "kmh" ELSE "mph")
    /\ comparison = NoComparison
    /\ decision = NoDecision
    /\ request = NoRequest
    /\ response = NoResponse
    /\ planner = NoPlanner
    /\ inflight = {}
    /\ upstream = NoUpstream
    /\ weather = NoWeather
    /\ recommendations = EmptyLists
    /\ code = 0
    /\ condition = NoCondition

\* the compareForecastToActual tool
CompareForecastToActual ==
    /\ pc \in {"idle", "decided"}
    /\ comparison' = compareForecastToActual(forecast, current)
    /\ pc' = (IF pc = "idle" THEN "compared" ELSE "both")
    /\ UNCHANGED <<weather, tempUnit, speedUnit, recommendations, code, condition,
                   forecast, current, decision,
                   request, response, planner, inflight, upstream>>

\* the shouldUpdateOutfit tool, original = forecast, current = live reading
ShouldUpdateOutfit ==
    /\ pc \in {"idle", "compared"}
    /\ decision' = shouldUpdateOutfit(
           [originalTemp          |-> forecast.temperature,
            currentTemp           |-> current.temperature,
            originalWindSpeed     |-> forecast.windSpeed,
            currentWindSpeed      |-> current.windSpeed,
            originalPrecipitation |-> forecast.precipitation,
            currentPrecipitation  |-> current.precipitation])
    /\ pc' = (IF pc = "idle" THEN "decided" ELSE "both")
    /\ UNCHANGED <<weather, tempUnit, speedUnit, recommendations, code, condition,
                   forecast, current, comparison,
                   request, response, planner, inflight, upstream>>

NextCompare == CompareForecastToActual \/ ShouldUpdateOutfit

SpecCompare == InitCompare /\ [][NextCompare]_vars

-----------------------------------------------------------------------------
(* Properties of the comparator and the decision (checked under            *)
(* SpecCompare)                                                            *)

compared == pc \in {"compared", "both"}
decided == pc \in {"decided", "both"}

dTemp == current.temperature - forecast.temperature
dWind == current.windSpeed - forecast.windSpeed
dPrecip == current.precipitation - forecast.precipitation

sameLabelIgnoringCase(a, b) ==
    /\ Len(a) = Len(b)
    /\ \A i \in 1..Len(a) : toLowerChar(a[i]) = toLowerChar(b[i])

\* C6: per factor difference = actual - forecast; temperature and wind are
\* significant iff |difference| > 5, precipitation iff |difference| > 20
\* (strict); condition changed iff the labels differ case-insensitively;
\* hasSignificantChanges is the disjunction of the three numeric flags only.
C6_ComparatorFlags ==
    compared =>
        LET c == comparison.comparison
        IN  /\ c.temperature.forecast = forecast.temperature
            /\ c.temperature.actual = current.temperature
            /\ c.temperature.difference = dTemp
            /\ c.temperature.significant <=> abs(dTemp) > 5
            /\ c.windSpeed.forecast = forecast.windSpeed
            /\ c.windSpeed.actual = current.windSpeed
            /\ c.windSpeed.difference = dWind
            /\ c.windSpeed.significant <=> abs(dWind) > 5
            /\ c.precipitation.forecast = forecast.precipitation
            /\ c.precipitation.actual = current.precipitation
            /\ c.precipitation.difference = dPrecip
            /\ c.precipitation.significant <=> abs(dPrecip) > 20
            /\ c.condition.changed <=>
                   ~sameLabelIgnoringCase(forecast.condition, current.condition)
            /\ comparison.hasSignificantChanges <=>
                   (abs(dTemp) > 5 \/ abs(dWind) > 5 \/ abs(dPrecip) > 20)

\* every delta exactly at its cut-off and the condition changed: nothing is
\* significant
C6_Witness ==
    /\ compared
    /\ comparison.comparison.temperature.difference = 5
    /\ comparison.comparison.windSpeed.difference = 0 - 5
    /\ comparison.comparison.precipitation.difference = 20
    /\ comparison.comparison.condition.changed
    /\ ~comparison.hasSignificantChanges

\* the comparison with forecast and actual exchanged
C7_Swapped == compareForecastToActual(current, forecast)

C7_TemperatureText(word, d, a, f) ==
    "Temperature is " \o ToString(d) \o "° " \o word \o " than predicted ("
        \o ToString(a) \o "° vs " \o ToString(f) \o "°)"

C7_WindText(word, d, a, f) ==
    "Wind is " \o ToString(d) \o " " \o word \o " than expected ("
        \o ToString(a) \o " vs " \o ToString(f) \o ")"

\* C7: exchanging forecast and actual leaves |difference| and every
\* significance flag unchanged and, for each significant factor, flips the
\* direction word of its summary clause (warmer/cooler, windier/calmer).
C7_SwapAntisymmetry ==
    compared =>
        LET c == comparison.comparison
            s == C7_Swapped.comparison
        IN  /\ abs(s.temperature.difference) = abs(c.temperature.difference)
            /\ abs(s.windSpeed.difference) = abs(c.windSpeed.difference)
            /\ abs(s.precipitation.difference) = abs(c.precipitation.difference)
            /\ s.temperature.significant = c.temperature.significant
            /\ s.windSpeed.significant = c.windSpeed.significant
            /\ s.precipitation.significant = c.precipitation.significant
            /\ C7_Swapped.hasSignificantChanges = comparison.hasSignificantChanges
            /\ c.temperature.significant =>
                   LET here  == IF dTemp > 0 THEN "warmer" ELSE "cooler"
                       there == IF dTemp > 0 THEN "cooler" ELSE "warmer"
                   IN  /\ summaryParts(c)[1] =
                              C7_TemperatureText(here, abs(dTemp), current.temperature,
                                                 forecast.temperature)
                       /\ summaryParts(s)[1] =
                              C7_TemperatureText(there, abs(dTemp), forecast.temperature,
                                                 current.temperature)
            /\ c.windSpeed.significant =>
                   LET here  == IF dWind > 0 THEN "windier" ELSE "calmer"
                       there == IF dWind > 0 THEN "calmer" ELSE "windier"
                   IN  /\ summaryParts(c)[2] =
                              C7_WindText(here, abs(dWind), current.windSpeed,
                                          forecast.windSpeed)
                       /\ summaryParts(s)[2] =
                              C7_WindText(there, abs(dWind), forecast.windSpeed,
                                          current.windSpeed)

\* warmer and calmer than forecast, both significantly
C7_Witness ==
    /\ compared
    /\ comparison.comparison.temperature.difference = 8
    /\ comparison.comparison.temperature.significant
    /\ comparison.comparison.windSpeed.difference = 0 - 6
    /\ comparison.comparison.windSpeed.significant
    /\ temperatureDirection(C7_Swapped.comparison) = "cooler"
    /\ windDirection(C7_Swapped.comparison) = "windier"

\* the summary as the design describes it
C8_Expected ==
    <<IF abs(dTemp) > 5
      THEN "Temperature is " \o ToString(abs(dTemp)) \o "° "
               \o (IF dTemp > 0 THEN "warmer" ELSE "cooler") \o " than predicted ("
               \o ToString(current.temperature) \o "° vs "
               \o ToString(forecast.temperature) \o "°)"
      ELSE "Temperature is close to forecast (" \o ToString(current.temperature) \o "°)">>
    \o (IF abs(dWind) > 5
        THEN <<"Wind is " \o ToString(abs(dWind)) \o " "
                   \o (IF dWind > 0 THEN "windier" ELSE "calmer") \o " than expected ("
                   \o ToString(current.windSpeed) \o " vs "
                   \o ToString(forecast.windSpeed) \o ")">>
        ELSE <<>>)
    \o (IF abs(dPrecip) > 20
        THEN <<"Precipitation probability changed significantly ("
                   \o ToString(current.precipitation) \o "% vs "
                   \o ToString(forecast.precipitation) \o "%)">>
        ELSE <<>>)
    \o (IF ~sameLabelIgnoringCase(forecast.condition, current.condition)
        THEN <<"Conditions changed from " \o str(forecast.condition) \o " to "
                   \o str(current.condition)>>
        ELSE <<>>)

C8_Flags ==
    (IF abs(dWind) > 5 THEN 1 ELSE 0) + (IF abs(dPrecip) > 20 THEN 1 ELSE 0)
        + (IF ~sameLabelIgnoringCase(forecast.condition, current.condition) THEN 1 ELSE 0)

\* C8: the summary is, in order, exactly one temperature clause (the
\* warmer/cooler clause when significant, else "close to forecast"), a wind
\* clause iff wind is significant, a precipitation clause iff precipitation is
\* significant, a condition clause iff the labels differ case-insensitively,
\* joined with ". ": 1 + (number of flags set) fragments.
C8_SummaryStructure ==
    compared =>
        /\ comparison.summary = join(C8_Expected, ". ")
        /\ summaryParts(comparison.comparison) = C8_Expected
        /\ Len(summaryParts(comparison.comparison)) = 1 + C8_Flags

\* forecast 60 against actual 68, nothing else changed
C8_Witness ==
    /\ compared
    /\ forecast.temperature = 60
    /\ current.temperature = 68
    /\ comparison.comparison.temperature.significant
    /\ comparison.summary = "Temperature is 8° warmer than predicted (68° vs 60°)"

\* C9: shouldUpdate is true iff |temperature change| > 5 or |wind change| > 5
\* or |precipitation change| > 20; reasons holds one entry per tripped
\* cut-off, in the order temperature, wind, precipitation, each with the
\* absolute delta; so shouldUpdate is true iff reasons is non-empty.
C9_DecisionReasons ==
    decided =>
        /\ decision.shouldUpdate <=>
               (abs(dTemp) > 5 \/ abs(dWind) > 5 \/ abs(dPrecip) > 20)
        /\ decision.reasons =
               (IF abs(dTemp) > 5
                THEN <<"Temperature changed by " \o ToString(abs(dTemp)) \o "°F">>
                ELSE <<>>)
               \o (IF abs(dWind) > 5
                   THEN <<"Wind speed changed by " \o ToString(abs(dWind)) \o " mph">>
                   ELSE <<>>)
               \o (IF abs(dPrecip) > 20
                   THEN <<"Precipitation probability changed by "
                              \o ToString(abs(dPrecip)) \o "%">>
                   ELSE <<>>)
        /\ decision.shouldUpdate <=> decision.reasons # <<>>

\* all three cut-offs tripped, by negative deltas
C9_Witness ==
    /\ decided
    /\ dTemp = 0 - 6
    /\ dWind = 0 - 6
    /\ dPrecip = 0 - 21
    /\ decision.shouldUpdate
    /\ decision.reasons = <<"Temperature changed by 6°F",
                            "Wind speed changed by 6 mph",
                            "Precipitation probability changed by 21%">>

\* C10: severity is "high" iff |temperature change| > 10 or |wind change| > 10
\* or |precipitation change| > 40, "moderate" otherwise whenever shouldUpdate
\* is true, and "high" never comes with shouldUpdate = false.
C10_Severity ==
    decided =>
        /\ decision.severity = "high" <=>
               (abs(dTemp) > 10 \/ abs(dWind) > 10 \/ abs(dPrecip) > 40)
        /\ (decision.shouldUpdate /\ decision.severity # "high") =>
               decision.severity = "moderate"
        /\ decision.severity = "high" => decision.shouldUpdate

\* precipitation changed by exactly 40: an update of moderate severity
C10_Witness ==
    /\ decided
    /\ dTemp = 10
    /\ dWind = 0 - 10
    /\ dPrecip = 40
    /\ decision.shouldUpdate
    /\ decision.severity = "moderate"

\* C25: for all forecast/actual values the update decision and the comparator
\* agree: shouldUpdateOutfit(original = forecast, current = actual).shouldUpdate
\* equals the hasSignificantChanges flag compareForecastToActual computes for
\* the same values.
C25_DecisionAgreesWithComparator ==
    pc = "both" => (decision.shouldUpdate <=> comparison.hasSignificantChanges)

\* both tools have run on a temperature delta exactly at the cut-off, nothing
\* else moved: neither reports a change
C25_Witness ==
    /\ pc = "both"
    /\ dTemp = 5 /\ dWind = 0 /\ dPrecip = 0
    /\ ~decision.shouldUpdate
    /\ ~comparison.hasSignificantChanges

-----------------------------------------------------------------------------
(* Wind chill (weather-server.ts).  The provider's temperature and wind    *)
(* speed are decimal numbers: they are held in tenths, and the value       *)
(* returned in millionths of a degree, so that the function's cut-offs     *)
(* (4.8 km/h) and its coefficients are exact integers.                     *)

\* Math.pow(windSpeed, 0.16) in ten-thousandths, for the wind speeds (in
\* tenths) that occur
pow16(windSpeed) ==
    CASE windSpeed = 0   -> 0
      [] windSpeed = 29  -> 11857
      [] windSpeed = 30  -> 11922
      [] windSpeed = 31  -> 11984
      [] windSpeed = 47  -> 12810
      [] windSpeed = 48  -> 12853
      [] windSpeed = 49  -> 12895
      [] windSpeed = 120 -> 14882
      [] windSpeed = 200 -> 16150

\* 13.12 + 0.6215*T - 11.37*V^0.16 + 0.3965*T*V^0.16
windChillCelsius(temp, windSpeed) ==
    13120000 + 62150 * temp - 1137 * pow16(windSpeed)
        + (((temp * pow16(windSpeed)) \div 100) * 3965) \div 10

\* 35.74 + 0.6215*T - 35.75*V^0.16 + 0.4275*T*V^0.16
windChillFahrenheit(temp, windSpeed) ==
    35740000 + 62150 * temp - 3575 * pow16(windSpeed)
        + (((temp * pow16(windSpeed)) \div 100) * 4275) \div 10

\* the temperature itself, as a value in millionths
unchanged(temp) == temp * 100000

\* a plausible slip: the applicability floors taken inclusively
calculateWindChill_inclusive(temp, windSpeed, unit) ==
    IF unit = "celsius"
    THEN IF temp >= 100 \/ windSpeed <= 48
         THEN unchanged(temp)
         ELSE windChillCelsius(temp, windSpeed)
    ELSE IF temp >= 500 \/ windSpeed <= 30
         THEN unchanged(temp)
         ELSE windChillFahrenheit(temp, windSpeed)

calculateWindChill(temp, windSpeed, unit) ==
    IF unit = "celsius"
    THEN IF temp > 100 \/ windSpeed < 48
         THEN unchanged(temp)
         ELSE windChillCelsius(temp, windSpeed)
    ELSE IF temp > 500 \/ windSpeed < 30
         THEN unchanged(temp)
         ELSE windChillFahrenheit(temp, windSpeed)

\* temperatures (tenths) around the floors 10 C and 50 F
WindChillTemperatures == {0 - 100, 0, 99, 100, 101, 499, 500, 501, 600}
\* wind speeds (tenths) around the floors 4.8 km/h and 3 mph
WindChillSpeeds == {0, 29, 30, 31, 47, 48, 49, 120, 200}

InitWindChill ==
    /\ pc = "idle"
    /\ request \in [temp : WindChillTemperatures, windSpeed : WindChillSpeeds,
                    unit : TempUnits]
    /\ response = NoResponse
    /\ weather = NoWeather
    /\ tempUnit = "fahrenheit"
    /\ speedUnit = "mph"
    /\ recommendations = EmptyLists
    /\ code = 0
    /\ condition = NoCondition
    /\ forecast = NoWeather
    /\ current = NoWeather
    /\ comparison = NoComparison
    /\ decision = NoDecision
    /\ planner = NoPlanner
    /\ inflight = {}
    /\ upstream = NoUpstream

CalculateWindChill ==
    /\ pc = "idle"
    /\ response' = [windChill |->
                       calculateWindChill(request.temp, request.windSpeed, request.unit)]
    /\ pc' = "windChill"
    /\ UNCHANGED <<weather, tempUnit, speedUnit, recommendations, code, condition,
                   forecast, current, comparison, decision, request, planner,
                   inflight, upstream>>

NextWindChill == CalculateWindChill

SpecWindChill == InitWindChill /\ [][NextWindChill]_vars

windFloor == IF request.unit = "celsius" THEN 48 ELSE 30
applicabilityFloor == IF request.unit = "celsius" THEN 100 ELSE 500

\* C13: calculateWindChill returns the input temperature unchanged whenever
\* the wind speed is below the unit's floor (4.8 km/h, 3 mph) or the
\* temperature is above the unit's applicability floor (10 C, 50 F); the
\* wind-chill formula is applied only when neither holds.
C13_WindChillFloors ==
    pc = "windChill" =>
        IF request.windSpeed < windFloor \/ request.temp > applicabilityFloor
        THEN response.windChill = request.temp * 100000
        ELSE /\ response.windChill =
                    (IF request.unit = "celsius"
                     THEN windChillCelsius(request.temp, request.windSpeed)
                     ELSE windChillFahrenheit(request.temp, request.windSpeed))
             /\ response.windChill # request.temp * 100000

\* exactly on both floors the formula applies: 10 C at 4.8 km/h feels like 9.8 C
C13_Witness ==
    /\ pc = "windChill"
    /\ request = [temp |-> 100, windSpeed |-> 48, unit |-> "celsius"]
    /\ response.windChill > 9800000
    /\ response.windChill < 9900000

-----------------------------------------------------------------------------
(* check-current-weather route (part_002).  The provider's decimal values  *)
(* are held in tenths; the rounded values the engine works with are whole. *)

\* a JSON field that is absent, or present with a value
Absent == [defined |-> FALSE]
Defined(v) == [defined |-> TRUE, value |-> v]
\* !x for a field that holds a number when present: undefined and 0 are falsy
notNumber(x) == ~x.defined \/ x.value = 0
\* !x for a field that holds an object when present
notObject(x) == ~x.defined

\* Math.round of a value given in tenths
round(tenths) == (tenths + 5) \div 10
\* Math.round of a value given in millionths
roundMillionths(v) == (v + 500000) \div 1000000

\* getCurrentConditions, given the `current` block the provider answered with
getCurrentConditions(data) ==
    [temperature         |-> round(data.temperature_2m),
     apparentTemperature |-> round(data.apparent_temperature),
     precipitation       |-> data.precipitation,
     windSpeed           |-> round(data.wind_speed_10m),
     humidity            |-> data.relative_humidity_2m,
     condition           |-> getWeatherCondition(data.weather_code),
     weatherCode         |-> data.weather_code]

\* getGranularWeatherFactors, given the `current` block the provider answered with
getGranularWeatherFactors(data, tu) ==
    [windChill |-> roundMillionths(
                       calculateWindChill(data.temperature_2m, data.wind_speed_10m, tu)),
     humidity  |-> data.relative_humidity_2m,
     feelsLike |-> round(data.apparent_temperature)]

HOT_TEMP_F == 75

\* five times currentTempF, so that (temperature * 9) / 5 + 32 stays whole
currentTempF5(cur, tu) ==
    IF tu = "celsius" THEN cur.temperature * 9 + 160 ELSE cur.temperature * 5

feelsLikeClause(g, cur, tu) ==
    "Feels like " \o ToString(g.feelsLike) \o "°"
        \o (IF tu = "celsius" THEN "C" ELSE "F") \o " ("
        \o (IF g.feelsLike < cur.temperature THEN "colder" ELSE "warmer")
        \o " than actual temperature)."

humidityClause(g) ==
    "Humidity is " \o ToString(g.humidity) \o "% ("
        \o (IF g.humidity > 80 THEN "very muggy" ELSE "humid")
        \o " - will feel hotter)."

\* Rule 6 of the route: the feels-like sentence
pushFeelsLike(parts, g, cur, tu) ==
    IF currentTempF5(cur, tu) < 5 * HOT_TEMP_F
       /\ abs(g.feelsLike - cur.temperature) >= 3
    THEN Append(parts, feelsLikeClause(g, cur, tu))
    ELSE parts

\* a plausible slip: the humidity cut-off taken inclusively
pushHumidity_inclusive(parts, g, cur, tu) ==
    IF currentTempF5(cur, tu) >= 5 * HOT_TEMP_F /\ g.humidity >= 70
    THEN Append(parts, humidityClause(g))
    ELSE parts

\* Rule 5 of the route: the humidity sentence
pushHumidity(parts, g, cur, tu) ==
    IF currentTempF5(cur, tu) >= 5 * HOT_TEMP_F /\ g.humidity > 70
    THEN Append(parts, humidityClause(g))
    ELSE parts

\* the parts array of generateResponseMessage as the rules leave it
responseMessageParts(cmp, g, cur, tu) ==
    pushHumidity(pushFeelsLike(<<cmp.summary \o ".">>, g, cur, tu), g, cur, tu)

generateResponseMessage(cmp, g, cur, tu) ==
    join(responseMessageParts(cmp, g, cur, tu), " ")

\* what one upstream fetch can end in
FetchOutcomes == {"ok", "notOk", "rejected"}

\* the message of the error a failed fetch raises inside the tool
fetchError(outcome, notOkMessage) ==
    IF outcome = "notOk" THEN notOkMessage ELSE "fetch failed"

checkFailure(message, fetches) ==
    [status |-> 500,
     error |-> "Failed to check current weather: " \o message,
     fetches |-> fetches]

\* POST of the route: body is the parsed request, up the three upstream
\* fetches in the order the handler awaits them
POST_checkCurrentWeather(body, up) ==
    IF notNumber(body.lat) \/ notNumber(body.lon)
       \/ notObject(body.forecastWeather) \/ notObject(body.originalOutfit)
    THEN [status |-> 400, error |-> "Missing required parameters", fetches |-> 0]
    ELSE
    LET tu == IF body.temperatureUnit = "celsius" THEN "celsius" ELSE "fahrenheit"
        currentConditions == getCurrentConditions(up[1].data)
        cmp == compareForecastToActual(body.forecastWeather.value,
                                       getCurrentConditions(up[2].data))
        granularFactors == getGranularWeatherFactors(up[3].data, tu)
    IN  IF up[1].outcome # "ok"
        THEN checkFailure(fetchError(up[1].outcome, "Failed to fetch current weather"), 1)
        ELSE IF up[2].outcome # "ok"
        THEN checkFailure(fetchError(up[2].outcome, "Failed to fetch current weather"), 2)
        ELSE IF up[3].outcome # "ok"
        THEN checkFailure(fetchError(up[3].outcome,
                                     "Failed to fetch granular weather data"), 3)
        ELSE [status |-> 200,
              currentConditions |-> currentConditions,
              comparison |-> cmp,
              granularFactors |-> granularFactors,
              updateDecision |-> [shouldUpdate |-> TRUE, reasons |-> <<>>],
              updatedOutfit |-> generateOutfitForCurrentConditions(
                                    currentConditions, tu, body.speedUnit),
              message |-> generateResponseMessage(cmp, granularFactors,
                                                  currentConditions, tu),
              parts |-> responseMessageParts(cmp, granularFactors,
                                             currentConditions, tu),
              fetches |-> 3]

\* provider temperatures (tenths) around 40 F / 75 F and their Celsius equivalents
ProviderTemperatures(tu) ==
    IF tu = "celsius" THEN {44, 45, 156, 234, 235}
                      ELSE {394, 395, 600, 744, 745}
\* apparent temperature minus temperature (tenths), around the 3-degree gate
ApparentOffsets == {0 - 30, 0 - 20, 0, 30}
\* relative humidity around the cut-offs 70 and 80
Humidities == {70, 71, 80, 81}

ProviderReadings(tu) ==
    UNION {[temperature_2m : {t}, apparent_temperature : {t + d : d \in ApparentOffsets},
            precipitation : {50}, wind_speed_10m : {120}, weather_code : {61},
            relative_humidity_2m : Humidities] : t \in ProviderTemperatures(tu)}

\* the reading after the weather has moved on while the request is served
later(data) ==
    [data EXCEPT !.temperature_2m = @ + 60, !.apparent_temperature = @ + 60]

\* the forecast snapshot the planner holds for the walk
forecastWeatherOf(tu) ==
    [temperature |-> IF tu = "celsius" THEN 18 ELSE 70,
     condition |-> Rainy, precipitation |-> 50, windSpeed |-> 12]

CheckBodies ==
    [lat : {Absent, Defined(0), Defined(40)},
     lon : {Defined(10)},
     forecastWeather : {Absent} \cup {Defined(forecastWeatherOf(tu)) : tu \in TempUnits},
     originalOutfit : {Defined(EmptyLists)},
     temperatureUnit : TempUnits,
     speedUnit : SpeedUnits]

InitCheck ==
    /\ pc = "idle"
    /\ request \in {b \in CheckBodies :
                      /\ b.speedUnit = (IF b.temperatureUnit = "celsius" THEN "kmh" ELSE "mph")
                      /\ b.forecastWeather.defined =>
                             b.forecastWeather.value = forecastWeatherOf(b.temperatureUnit)}
    /\ response = NoResponse
    /\ weather = NoWeather
    /\ tempUnit = "fahrenheit"
    /\ speedUnit = "mph"
    /\ recommendations = EmptyLists
    /\ code = 0
    /\ condition = NoCondition
    /\ forecast = NoWeather
    /\ current = NoWeather
    /\ comparison = NoComparison
    /\ decision = NoDecision
    /\ planner = NoPlanner
    /\ inflight = {}
    /\ upstream = NoUpstream

\* one request served by the route; the provider's reading may move on
\* between the handler's fetches
CheckCurrentWeather ==
    /\ pc = "idle"
    /\ \E o1, o2, o3 \in FetchOutcomes :
       \E d \in ProviderReadings(request.temperatureUnit) :
       \E ds \in {<<d, d, d>>, <<d, later(d), later(d)>>, <<d, d, later(d)>>} :
           response' = POST_checkCurrentWeather(request,
                           <<[outcome |-> o1, data |-> ds[1]],
                             [outcome |-> o2, data |-> ds[2]],
                             [outcome |-> o3, data |-> ds[3]]>>)
    /\ pc' = "checked"
    /\ UNCHANGED <<weather, tempUnit, speedUnit, recommendations, code, condition,
                   forecast, current, comparison, decision, request, planner,
                   inflight, upstream>>

NextCheck == CheckCurrentWeather

SpecCheck == InitCheck /\ [][NextCheck]_vars

-----------------------------------------------------------------------------
(* Properties of the response message (checked under SpecCheck)            *)

answered == pc = "checked" /\ response.status = 200
cur == response.currentConditions
granular == response.granularFactors
unitOfRequest == IF request.temperatureUnit = "celsius" THEN "celsius" ELSE "fahrenheit"

\* current temperature in Fahrenheit terms is below / at or above a whole
\* Fahrenheit floor
belowF(floor) == currentTempF5(cur, unitOfRequest) < 5 * floor

hasFeelsLike == arrayIncludes(response.parts, feelsLikeClause(granular, cur, unitOfRequest))
hasHumidity == arrayIncludes(response.parts, humidityClause(granular))

\* C11: the message contains the 'Feels like ...' clause iff the current
\* temperature in Fahrenheit terms is below 40 F and |feelsLike - current
\* temperature| >= 3; at or above 40 F the clause is absent.
C11_FeelsLikeOnlyBelowCold ==
    answered =>
        (hasFeelsLike <=> (belowF(40) /\ abs(granular.feelsLike - cur.temperature) >= 3))

trippedThresholds ==
    Cardinality({f \in {"temperature", "windSpeed", "precipitation"} :
                     response.comparison.comparison[f].significant})

\* C24: in every successful check-current-weather response,
\* updateDecision.shouldUpdate is true iff at least one of the three
\* significance thresholds trips between the forecast snapshot and the live
\* reading (it equals comparison.hasSignificantChanges), and
\* updateDecision.reasons holds one reason per tripped threshold.
C24_UpdateDecisionFollowsThresholds ==
    answered =>
        /\ response.updateDecision.shouldUpdate <=> response.comparison.hasSignificantChanges
        /\ Len(response.updateDecision.reasons) = trippedThresholds

\* C26: within one check-current-weather response all parts are based on the
\* same live reading: the actual temperature, wind speed, precipitation and
\* condition of the comparison equal the corresponding fields of
\* currentConditions, even if the provider's reading changes while the
\* request is being served.
C26_OneLiveReading ==
    answered =>
        LET c == response.comparison.comparison
        IN  /\ c.temperature.actual = cur.temperature
            /\ c.windSpeed.actual = cur.windSpeed
            /\ c.precipitation.actual = cur.precipitation
            /\ c.condition.actual = cur.condition

-----------------------------------------------------------------------------
(* Locale (locale.ts): the unit system of a country name                   *)

\* countries that use Fahrenheit
FAHRENHEIT_COUNTRIES ==
    << <<"U","n","i","t","e","d"," ","S","t","a","t","e","s">>,
       <<"U","n","i","t","e","d"," ","S","t","a","t","e","s"," ","o","f"," ","A","m","e","r","i","c","a">>,
       <<"U","S","A">>,
       <<"U","S">>,
       <<"L","i","b","e","r","i","a">>,
       <<"M","y","a","n","m","a","r">>,
       <<"B","u","r","m","a">> >>

\* FAHRENHEIT_COUNTRIES.some((fc) => country.toLowerCase().includes(fc.toLowerCase()))
someFahrenheitCountry(country) ==
    \E i \in DOMAIN FAHRENHEIT_COUNTRIES :
        includes(toLowerCase(country), toLowerCase(FAHRENHEIT_COUNTRIES[i]))

getTemperatureUnit(country) ==
    IF someFahrenheitCountry(country) THEN "fahrenheit" ELSE "celsius"

getSpeedUnit(country) ==
    IF someFahrenheitCountry(country) THEN "mph" ELSE "kmh"

\* country names as the geocoder reports them
Countries ==
    {
      <<"U","n","i","t","e","d"," ","S","t","a","t","e","s"," ","o","f"," ","A","m","e","r","i","c","a">>,
      <<"U","S","A">>,
      <<"U","S">>,
      <<"L","i","b","e","r","i","a">>,
      <<"B","u","r","m","a">>,
      <<"u","n","i","t","e","d"," ","s","t","a","t","e","s">>,
      <<"M","Y","A","N","M","A","R">>,
      <<"C","a","n","a","d","a">>,
      <<"M","e","x","i","c","o">>,
      <<"G","e","r","m","a","n","y">>,
      <<"F","r","a","n","c","e">>,
      <<"J","a","p","a","n">>,
      <<"C","h","i","n","a">>,
      <<"I","n","d","i","a">>,
      <<"B","r","a","z","i","l">>,
      <<"K","e","n","y","a">>,
      <<"S","p","a","i","n">>,
      <<"I","t","a","l","y">>,
      <<"N","o","r","w","a","y">>,
      <<"C","h","i","l","e">>,
      <<"E","g","y","p","t">>,
      <<"A","u","s","t","r","a","l","i","a">>,
      <<"A","u","s","t","r","i","a">>,
      <<"R","u","s","s","i","a">>,
      <<"B","e","l","a","r","u","s">>,
      <<"C","y","p","r","u","s">>,
      <<"M","a","u","r","i","t","i","u","s">>
    }

NoUnits == [temperatureUnit |-> "", speedUnit |-> ""]

InitLocale ==
    /\ pc = "idle"
    /\ request \in [country : Countries]
    /\ response = NoUnits
    /\ weather = NoWeather
    /\ tempUnit = "fahrenheit"
    /\ speedUnit = "mph"
    /\ recommendations = EmptyLists
    /\ code = 0
    /\ condition = NoCondition
    /\ forecast = NoWeather
    /\ current = NoWeather
    /\ comparison = NoComparison
    /\ decision = NoDecision
    /\ planner = NoPlanner
    /\ inflight = {}
    /\ upstream = NoUpstream

GetTemperatureUnit ==
    /\ response.temperatureUnit = ""
    /\ response' = [response EXCEPT !.temperatureUnit = getTemperatureUnit(request.country)]
    /\ pc' = "units"
    /\ UNCHANGED <<weather, tempUnit, speedUnit, recommendations, code, condition,
                   forecast, current, comparison, decision, request, planner,
                   inflight, upstream>>

GetSpeedUnit ==
    /\ response.speedUnit = ""
    /\ response' = [response EXCEPT !.speedUnit = getSpeedUnit(request.country)]
    /\ pc' = "units"
    /\ UNCHANGED <<weather, tempUnit, speedUnit, recommendations, code, condition,
                   forecast, current, comparison, decision, request, planner,
                   inflight, upstream>>

NextLocale == GetTemperatureUnit \/ GetSpeedUnit

SpecLocale == InitLocale /\ [][NextLocale]_vars

\* the country string names the United States (in one of its variants),
\* Liberia, or Myanmar / Burma, in any letter case
namesFahrenheitCountry(country) ==
    \E i \in DOMAIN FAHRENHEIT_COUNTRIES :
        toLowerCase(country) = toLowerCase(FAHRENHEIT_COUNTRIES[i])

\* C14: getTemperatureUnit returns 'fahrenheit' exactly for country strings
\* that name the United States (any variant, any letter case), Liberia or
\* Myanmar / Burma, and 'celsius' for every other country name.
C14_FahrenheitExactlyForAllowList ==
    response.temperatureUnit # "" =>
        /\ response.temperatureUnit = "fahrenheit" <=> namesFahrenheitCountry(request.country)
        /\ response.temperatureUnit = "celsius" <=> ~namesFahrenheitCountry(request.country)

-----------------------------------------------------------------------------
(* calculate-walk route (calculate-walk/route.ts).  Instants are           *)
(* milliseconds counted from 00:00 UTC of 2026-03-04, as Date.getTime()    *)
(* counts them from its epoch.                                             *)

\* !x for a field that holds a string when present
notString(x) == ~x.defined \/ x.value = ""

\* offset from UTC, in minutes, of the zones the timezone lookup names
utcOffsetMinutes(timezone) ==
    CASE timezone = "UTC" -> 0
      [] timezone = "America/New_York" -> 0 - 300
      [] timezone = "Asia/Kolkata" -> 330

\* moment.tz(timezone).zoneAbbr()
zoneAbbr(timezone) ==
    CASE timezone = "UTC" -> "UTC"
      [] timezone = "America/New_York" -> "EST"
      [] timezone = "Asia/Kolkata" -> "IST"

\* minute of the day on the wall clock of the zone
minuteOfDay(instant, timezone) ==
    ((instant + utcOffsetMinutes(timezone) * 60000) \div 60000) % 1440

twoDigit(n) == IF n < 10 THEN "0" \o ToString(n) ELSE ToString(n)

\* "h:mm AM/PM" for a minute of the day
clock(minute) ==
    LET h == minute \div 60
    IN  ToString(IF h % 12 = 0 THEN 12 ELSE h % 12) \o ":" \o twoDigit(minute % 60)
            \o (IF h < 12 THEN " AM" ELSE " PM")

\* Date.prototype.toLocaleTimeString("en-US", {hour: "numeric",
\* minute: "2-digit", hour12: true, timeZone})
toLocaleTimeString(instant, timezone) == clock(minuteOfDay(instant, timezone))

\* moment.tz(timezone).format("YYYY-MM-DD") at the instant `now`
today(now, timezone) ==
    "2026-03-0"
        \o ToString(4 + ((now + utcOffsetMinutes(timezone) * 60000) \div 86400000))

plural(n) == IF n > 1 THEN "s" ELSE ""
pluralUnlessOne(n) == IF n # 1 THEN "s" ELSE ""

\* the remaining time in words, for a walk that has not started yet
timeUntilText(timeUntilWalkMs) ==
    LET hoursUntil == timeUntilWalkMs \div (1000 * 60 * 60)
        minutesUntil == (timeUntilWalkMs % (1000 * 60 * 60)) \div (1000 * 60)
        daysUntil == hoursUntil \div 24
    IN  IF daysUntil > 0
        THEN ToString(daysUntil) \o " day" \o plural(daysUntil) \o " and "
                 \o ToString(hoursUntil % 24) \o " hour"
                 \o pluralUnlessOne(hoursUntil % 24)
        ELSE IF hoursUntil > 0
        THEN ToString(hoursUntil) \o " hour" \o plural(hoursUntil) \o " and "
                 \o ToString(minutesUntil) \o " minute"
                 \o pluralUnlessOne(minutesUntil)
        ELSE ToString(minutesUntil) \o " minute" \o pluralUnlessOne(minutesUntil)

\* a plausible slip: a walk that starts this very instant counted as late
timeUntilWalkStr_inclusive(timeUntilWalkMs) ==
    IF timeUntilWalkMs <= 0
    THEN "You should have already started!"
    ELSE timeUntilText(timeUntilWalkMs)

timeUntilWalkStr(timeUntilWalkMs) ==
    IF timeUntilWalkMs < 0
    THEN "You should have already started!"
    ELSE timeUntilText(timeUntilWalkMs)
\* a plausible slip: the minutes until sunset rounded up
minutesWalkingInDark_ceil(timeUntilWalkMs, walkDurationMinutes, sunsetUTC, now) ==
    IF timeUntilWalkMs < 0 /\ walkDurationMinutes > 0
    THEN IF sunsetUTC - now > 0
         THEN LET minutesUntilSunset == (sunsetUTC - now + 59999) \div (1000 * 60)
              IN  IF walkDurationMinutes > minutesUntilSunset
                  THEN walkDurationMinutes - minutesUntilSunset
                  ELSE 0
         ELSE walkDurationMinutes
    ELSE 0

\* minutes of the walk that fall after sunset when it starts now
minutesWalkingInDark(timeUntilWalkMs, walkDurationMinutes, sunsetUTC, now) ==
    IF timeUntilWalkMs < 0 /\ walkDurationMinutes > 0
    THEN IF sunsetUTC - now > 0
         THEN LET minutesUntilSunset == (sunsetUTC - now) \div (1000 * 60)
              IN  IF walkDurationMinutes > minutesUntilSunset
                  THEN walkDurationMinutes - minutesUntilSunset
                  ELSE 0
         ELSE walkDurationMinutes
    ELSE 0

\* the zone the handler works with once the timezone lookup has ended
lookedUpTimezone(lookup) ==
    IF lookup.outcome = "ok" /\ lookup.timezone # "" THEN lookup.timezone ELSE "UTC"

sunsetError(fetch) ==
    "Failed to fetch sunset data: "
        \o (CASE fetch.outcome = "notOk" -> "Error: Sunset API returned 503"
              [] fetch.outcome = "badStatus" -> "Error: Invalid sunset data received"
              [] fetch.outcome = "rejected" -> "TypeError: fetch failed")

\* the result when hours * 60 + minutes is NaN because one of them is undefined
walkResultNaN(body, timezone, sunsetUTC, now) ==
    [status |-> 200,
     sunsetTime |-> toLocaleTimeString(sunsetUTC, timezone),
     startTime |-> "Invalid Date",
     timeUntilWalk |-> "NaN minutes",
     date |-> IF body.date.value = "today" THEN today(now, timezone) ELSE body.date.value,
     timezone |-> zoneAbbr(timezone),
     walkDurationMinutes |-> Absent,
     minutesWalkingInDark |-> Absent,
     shouldHaveLeftBy |-> Absent,
     fetches |-> 2]

walkResult(body, timezone, sunsetUTC, now) ==
    LET walkDurationMs == (body.hours.value * 60 + body.minutes.value) * 60 * 1000
        walkDurationMinutes == body.hours.value * 60 + body.minutes.value
        startTime == sunsetUTC - walkDurationMs
        timeUntilWalkMs == startTime - now
        dark == minutesWalkingInDark(timeUntilWalkMs, walkDurationMinutes, sunsetUTC, now)
    IN  [status |-> 200,
         sunsetTime |-> toLocaleTimeString(sunsetUTC, timezone),
         startTime |-> toLocaleTimeString(startTime, timezone),
         timeUntilWalk |-> timeUntilWalkStr(timeUntilWalkMs),
         date |-> IF body.date.value = "today" THEN today(now, timezone)
                                                ELSE body.date.value,
         timezone |-> zoneAbbr(timezone),
         walkDurationMinutes |-> Defined(walkDurationMinutes),
         minutesWalkingInDark |-> IF dark > 0 THEN Defined(dark) ELSE Absent,
         shouldHaveLeftBy |->
             IF timeUntilWalkMs < 0 /\ walkDurationMinutes > 0
             THEN Defined(toLocaleTimeString(startTime, timezone))
             ELSE Absent,
         fetches |-> 2]

\* POST of the route: body is the parsed request, up the answers of the
\* timezone lookup and of the sunset provider and the server's clock
POST_calculateWalk(body, up) ==
    IF notNumber(body.lat) \/ notNumber(body.lon) \/ notString(body.date)
       \/ (~body.hours.defined /\ ~body.minutes.defined)
    THEN [status |-> 400, error |-> "Missing required parameters", fetches |-> 0]
    ELSE LET timezone == lookedUpTimezone(up.timezone)
         IN  IF up.sunset.outcome # "ok"
             THEN [status |-> 500,
                   error |-> "Failed to calculate walk time: " \o sunsetError(up.sunset),
                   fetches |-> 2]
             ELSE IF body.hours.defined /\ body.minutes.defined
             THEN walkResult(body, timezone, up.sunset.sunset, up.now)
             ELSE walkResultNaN(body, timezone, up.sunset.sunset, up.now)

WalkBodies ==
    [lat : {Absent, Defined(0), Defined(40)},
     lon : {Defined(10)},
     date : {Absent, Defined("today"), Defined("2026-03-04")},
     hours : {Absent, Defined(0), Defined(1), Defined(2)},
     minutes : {Absent, Defined(0), Defined(1), Defined(30), Defined(59)}]

\* answers of the timezone lookup: a zone, a body without zone, a failure
TimezoneLookups ==
    {[outcome |-> "ok", timezone |-> "America/New_York"],
     [outcome |-> "ok", timezone |-> "Asia/Kolkata"],
     [outcome |-> "ok", timezone |-> ""],
     [outcome |-> "notOk", timezone |-> ""],
     [outcome |-> "rejected", timezone |-> ""]}

\* sunsets at 18:00:00, 23:45:30 and 00:15:00 (next day) UTC
SunsetInstants == {64800000, 85530000, 87300000}

SunsetFetches ==
    [outcome : {"ok", "notOk", "badStatus", "rejected"}, sunset : SunsetInstants]

\* the server's clock relative to the start of the walk ...
NowFromStart == {0 - 180000000, 0 - 90000000, 0 - 7200000, 0 - 60000, 0 - 1, 0, 1,
                 59999, 60000, 60001}
\* ... and relative to sunset
NowFromSunset == {0 - 60001, 0 - 60000, 0 - 1, 0, 1}

durationMs(body) ==
    IF body.hours.defined /\ body.minutes.defined
    THEN (body.hours.value * 60 + body.minutes.value) * 60 * 1000
    ELSE 0

InitWalk ==
    /\ pc = "idle"
    /\ request \in WalkBodies
    /\ \E lookup \in TimezoneLookups, fetch \in SunsetFetches :
       \E now \in {fetch.sunset - durationMs(request) + e : e \in NowFromStart}
                  \cup {fetch.sunset + e : e \in NowFromSunset} :
           upstream = [timezone |-> lookup, sunset |-> fetch, now |-> now]
    /\ response = NoResponse
    /\ weather = NoWeather
    /\ tempUnit = "fahrenheit"
    /\ speedUnit = "mph"
    /\ recommendations = EmptyLists
    /\ code = 0
    /\ condition = NoCondition
    /\ forecast = NoWeather
    /\ current = NoWeather
    /\ comparison = NoComparison
    /\ decision = NoDecision
    /\ planner = NoPlanner
    /\ inflight = {}

CalculateWalk ==
    /\ pc = "idle"
    /\ response' = POST_calculateWalk(request, upstream)
    /\ pc' = "walk"
    /\ UNCHANGED <<weather, tempUnit, speedUnit, recommendations, code, condition,
                   forecast, current, comparison, decision, request, planner,
                   inflight, upstream>>

NextWalk == CalculateWalk

SpecWalk == InitWalk /\ [][NextWalk]_vars

-----------------------------------------------------------------------------
(* Properties of calculate-walk (checked under SpecWalk)                   *)

\* the request passed validation and was served
walkServed == pc = "walk" /\ response.status # 400
walkComputed ==
    /\ pc = "walk"
    /\ response.status = 200
    /\ request.hours.defined
    /\ request.minutes.defined

\* C17: if any upstream provider call fails or returns a non-success status,
\* the request ends in a single error response with a structured reason and
\* no partially computed result; nothing is retried or silently defaulted.
C17_UpstreamFailureIsAnError ==
    (walkServed /\ (upstream.timezone.outcome # "ok" \/ upstream.sunset.outcome # "ok")) =>
        /\ response.status = 500
        /\ response.fetches <= 2

sunsetClock == minuteOfDay(upstream.sunset.sunset, lookedUpTimezone(upstream.timezone))
requestedMinutes == request.hours.value * 60 + request.minutes.value

\* C18: start time = sunset - (hours*60 + minutes) minutes, so on the clock
\* the reported start time plus the duration is the reported sunset time;
\* timeUntilWalk is 'You should have already started!' iff the current
\* instant is strictly after the start time.
C18_StartIsSunsetMinusDuration ==
    walkComputed =>
        /\ response.sunsetTime = clock(sunsetClock)
        /\ \E startClock \in 0..1439 :
              /\ (startClock + requestedMinutes) % 1440 = sunsetClock
              /\ response.startTime = clock(startClock)
        /\ response.walkDurationMinutes = Defined(requestedMinutes)
        /\ (response.timeUntilWalk = "You should have already started!")
               <=> (upstream.now > upstream.sunset.sunset - requestedMinutes * 60000)

\* sunset 00:15 UTC is 5:45 AM in Kolkata; a walk of 1 h 30 min starts at
\* 4:15 AM, which is the very instant of the request: not yet late
C18_Witness ==
    /\ walkComputed
    /\ upstream.sunset.sunset = 87300000
    /\ upstream.timezone.timezone = "Asia/Kolkata"
    /\ requestedMinutes = 90
    /\ upstream.now = 87300000 - 90 * 60000
    /\ response.sunsetTime = "5:45 AM"
    /\ response.startTime = "4:15 AM"
    /\ response.timeUntilWalk = "0 minutes"

\* the request came after the start of a walk of positive duration
lateForWalk ==
    /\ requestedMinutes > 0
    /\ upstream.now > upstream.sunset.sunset - requestedMinutes * 60000

\* C29: in every calculate-walk response with integer hours and minutes,
\* shouldHaveLeftBy is present iff minutesWalkingInDark is present, which
\* holds iff the walk duration is positive and the current instant is after
\* the start time; when present, 1 <= minutesWalkingInDark <=
\* walkDurationMinutes, it equals the duration minus the whole minutes
\* remaining until sunset while sunset is still ahead, and the full duration
\* once sunset has passed.
C29_MinutesWalkingInDark ==
    walkComputed =>
        /\ response.shouldHaveLeftBy.defined <=> response.minutesWalkingInDark.defined
        /\ response.minutesWalkingInDark.defined <=> lateForWalk
        /\ response.minutesWalkingInDark.defined =>
               /\ 1 <= response.minutesWalkingInDark.value
               /\ response.minutesWalkingInDark.value <= requestedMinutes
               /\ response.minutesWalkingInDark.value =
                      IF upstream.now < upstream.sunset.sunset
                      THEN requestedMinutes
                               - ((upstream.sunset.sunset - upstream.now) \div 60000)
                      ELSE requestedMinutes

\* a walk of 1 h 30 min asked for one minute and one millisecond after its
\* start: 88 whole minutes are left until sunset, 2 minutes fall in the dark
C29_Witness ==
    /\ walkComputed
    /\ requestedMinutes = 90
    /\ upstream.now = upstream.sunset.sunset - 90 * 60000 + 60001
    /\ response.minutesWalkingInDark = Defined(2)
    /\ response.shouldHaveLeftBy.defined

-----------------------------------------------------------------------------
(* The planner component (sunset-walk-planner.tsx).  `planner` holds the   *)
(* component's useState values that drive the flow (the typed city text,   *)
(* the error line and the two display clocks are left out); `inflight` is  *)
(* the set of fetches whose answer has not arrived yet, each with the      *)
(* values its handler closed over.  An answer may arrive at any later      *)
(* moment, in any order.                                                   *)

MaxInFlight == 2

Null == [null |-> TRUE]

France == <<"F","r","a","n","c","e">>
UnitedStates == <<"U","n","i","t","e","d"," ","S","t","a","t","e","s">>

\* what /api/search-city finds
ParisFrance == [name |-> "Paris, Ile-de-France, France", country |-> France,
                lat |-> 49, lon |-> 2]
ParisTexas == [name |-> "Paris, Texas, United States", country |-> UnitedStates,
               lat |-> 34, lon |-> 0 - 96]
Cities == {ParisFrance, ParisTexas}

Queries == {"Paris", "Paris Texas"}
citiesFound(query) ==
    IF query = "Paris" THEN <<ParisFrance, ParisTexas>> ELSE <<ParisTexas>>

\* how a route answers the planner: with a result, or with a failure (an
\* { error } body, or a fetch / response.json() that throws)
Answers == {"ok", "failed"}

\* Number.parseInt(s) || 0 for the values the inputs take
parseIntOr0(s) ==
    CASE s = "0" -> 0
      [] s = "1" -> 1
      [] s = "30" -> 30
      [] OTHER -> 0

HoursTyped == {"0", "1"}
MinutesTyped == {"0", "30"}
DatesPicked == {"2026-03-05"}

InitialPlanner ==
    [step |-> "city",
     cityOptions |-> <<>>,
     selectedCity |-> Null,
     todaySunsetInfo |-> Null,
     hours |-> "0",
     minutes |-> "30",
     date |-> Absent,
     loading |-> FALSE,
     walkPlan |-> Null,
     loadingOutfit |-> FALSE,
     checkingCurrentWeather |-> FALSE,
     currentWeatherCheck |-> Null,
     temperatureUnit |-> "fahrenheit",
     speedUnit |-> "mph"]

InitPlanner ==
    /\ pc = "idle"
    /\ planner = InitialPlanner
    /\ inflight = {}
    /\ request = NoRequest
    /\ response = NoResponse
    /\ upstream = NoUpstream
    /\ weather = NoWeather
    /\ tempUnit = "fahrenheit"
    /\ speedUnit = "mph"
    /\ recommendations = EmptyLists
    /\ code = 0
    /\ condition = NoCondition
    /\ forecast = NoWeather
    /\ current = NoWeather
    /\ comparison = NoComparison
    /\ decision = NoDecision

outsidePlanner == <<pc, weather, tempUnit, speedUnit, recommendations, code, condition,
                    forecast, current, comparison, decision, request, response,
                    upstream>>

room == Cardinality(inflight) < MaxInFlight

\* handleCitySearch up to its await (Search button or Enter in the city field)
HandleCitySearch ==
    /\ planner.step = "city"
    /\ room
    /\ \E query \in Queries :
           inflight' = inflight \cup {[url |-> "/api/search-city", query |-> query]}
    /\ planner' = [planner EXCEPT !.loading = TRUE]
    /\ UNCHANGED outsidePlanner

\* handleCitySelect up to its await: the state it sets ...
citySelected(p, cityOption) ==
    [p EXCEPT !.selectedCity = cityOption,
              !.cityOptions = <<>>,
              !.temperatureUnit = getTemperatureUnit(cityOption.country),
              !.speedUnit = getSpeedUnit(cityOption.country),
              !.loading = TRUE]

\* ... and the today's-sunset request it sends
todaySunsetRequest(cityOption) ==
    [url |-> "/api/calculate-walk",
     handler |-> "handleCitySelect",
     body |-> [lat |-> cityOption.lat, lon |-> cityOption.lon, date |-> "today",
               hours |-> 0, minutes |-> 0, city |-> cityOption.name,
               temperatureUnit |-> getTemperatureUnit(cityOption.country),
               speedUnit |-> getSpeedUnit(cityOption.country)]]

\* handleCitySearch after its await
CitySearchAnswered ==
    \E r \in inflight :
        /\ r.url = "/api/search-city"
        /\ \E answer \in Answers :
               IF answer = "ok" /\ Len(citiesFound(r.query)) = 1
               THEN /\ planner' = citySelected(planner, citiesFound(r.query)[1])
                    /\ inflight' = (inflight \ {r})
                                       \cup {todaySunsetRequest(citiesFound(r.query)[1])}
               ELSE /\ planner' = [planner EXCEPT
                                      !.cityOptions = IF answer = "ok"
                                                      THEN citiesFound(r.query) ELSE @,
                                      !.loading = FALSE]
                    /\ inflight' = inflight \ {r}
        /\ UNCHANGED outsidePlanner

\* a click on one of the listed cities
HandleCitySelect ==
    /\ planner.step = "city"
    /\ room
    /\ \E i \in DOMAIN planner.cityOptions :
           /\ planner' = citySelected(planner, planner.cityOptions[i])
           /\ inflight' = inflight \cup {todaySunsetRequest(planner.cityOptions[i])}
    /\ UNCHANGED outsidePlanner

\* today's sunset as calculate-walk reports it for a city
sunsetTimeIn(cityName) ==
    CASE cityName = ParisFrance.name -> "6:37 PM"
      [] cityName = ParisTexas.name -> "6:22 PM"

\* handleCitySelect after its await
TodaySunsetAnswered ==
    \E r \in inflight :
        /\ r.url = "/api/calculate-walk"
        /\ r.handler = "handleCitySelect"
        /\ \E answer \in Answers :
               planner' = [planner EXCEPT
                              !.todaySunsetInfo =
                                  IF answer = "ok"
                                  THEN [sunsetTime |-> sunsetTimeIn(r.body.city)]
                                  ELSE @,
                              !.loading = FALSE,
                              !.step = "cityConfirmed"]
        /\ inflight' = inflight \ {r}
        /\ UNCHANGED outsidePlanner

\* the city-confirmed card is rendered only with a sunset info
cityConfirmedShown == planner.step = "cityConfirmed" /\ planner.todaySunsetInfo # Null

BackToCity ==
    /\ cityConfirmedShown
    /\ planner' = [planner EXCEPT !.step = "city"]
    /\ UNCHANGED <<inflight, outsidePlanner>>

PlanWalk ==
    /\ cityConfirmedShown
    /\ planner' = [planner EXCEPT !.step = "planWalk"]
    /\ UNCHANGED <<inflight, outsidePlanner>>

SetHours ==
    /\ planner.step = "planWalk"
    /\ \E v \in HoursTyped : planner' = [planner EXCEPT !.hours = v]
    /\ UNCHANGED <<inflight, outsidePlanner>>

SetMinutes ==
    /\ planner.step = "planWalk"
    /\ \E v \in MinutesTyped : planner' = [planner EXCEPT !.minutes = v]
    /\ UNCHANGED <<inflight, outsidePlanner>>

HandleDateSelect ==
    /\ planner.step = "planWalk"
    /\ \E d \in DatesPicked : planner' = [planner EXCEPT !.date = Defined(d)]
    /\ UNCHANGED <<inflight, outsidePlanner>>

BackToCityConfirmed ==
    /\ planner.step = "planWalk"
    /\ planner' = [planner EXCEPT !.step = "cityConfirmed"]
    /\ UNCHANGED <<inflight, outsidePlanner>>

\* handleCalculate up to its await; the button is disabled without a date
\* and while loading
HandleCalculate ==
    /\ planner.step = "planWalk"
    /\ planner.date.defined
    /\ ~planner.loading
    /\ room
    /\ LET h == parseIntOr0(planner.hours)
           m == parseIntOr0(planner.minutes)
       IN  /\ ~(h = 0 /\ m = 0)
           /\ ~(h < 0 \/ m < 0 \/ m >= 60)
           /\ planner.selectedCity # Null
           /\ inflight' = inflight \cup
                  {[url |-> "/api/calculate-walk",
                    handler |-> "handleCalculate",
                    body |-> [lat |-> planner.selectedCity.lat,
                              lon |-> planner.selectedCity.lon,
                              date |-> planner.date.value,
                              hours |-> h, minutes |-> m,
                              city |-> planner.selectedCity.name,
                              temperatureUnit |-> planner.temperatureUnit,
                              speedUnit |-> planner.speedUnit]]}
    /\ planner' = [planner EXCEPT !.loading = TRUE]
    /\ UNCHANGED outsidePlanner

\* the walk plan calculate-walk answers with
walkPlanFor(body, inDark) ==
    [city |-> Defined(body.city),
     minutesWalkingInDark |-> IF inDark THEN Defined(15) ELSE Absent,
     weather |-> Absent,
     outfitRecommendations |-> Absent]

\* handleCalculate after its await, and fetchOutfitRecommendations up to its
\* await: both work with the city, date and units handleCalculate closed over
CalculateAnswered ==
    \E r \in inflight :
        /\ r.url = "/api/calculate-walk"
        /\ r.handler = "handleCalculate"
        /\ \E answer \in Answers :
               IF answer = "ok"
               THEN /\ \E inDark \in BOOLEAN :
                       planner' = [planner EXCEPT
                                         !.walkPlan = walkPlanFor(r.body, inDark),
                                         !.step = "result",
                                         !.loadingOutfit = TRUE,
                                         !.loading = FALSE]
                    /\ inflight' = (inflight \ {r}) \cup
                           {[url |-> "/api/outfit-recommendations",
                             body |-> [lat |-> r.body.lat, lon |-> r.body.lon,
                                       date |-> r.body.date, city |-> r.body.city,
                                       temperatureUnit |-> r.body.temperatureUnit,
                                       speedUnit |-> r.body.speedUnit]]}
               ELSE /\ planner' = [planner EXCEPT !.loading = FALSE]
                    /\ inflight' = inflight \ {r}
        /\ UNCHANGED outsidePlanner

\* the forecast snapshot outfit-recommendations answers with
forecastWeatherFor(body) ==
    [temperature |-> IF body.temperatureUnit = "celsius" THEN 18 ELSE 64,
     condition |-> PartlyCloudy,
     precipitation |-> 10,
     windSpeed |-> IF body.speedUnit = "kmh" THEN 16 ELSE 10]

\* { ...prev, weather, outfitRecommendations }
withOutfit(prev, body) ==
    LET w == forecastWeatherFor(body)
        o == generateOutfitRecommendations(w, body.temperatureUnit, body.speedUnit)
    IN  IF prev = Null
        THEN [city |-> Absent, minutesWalkingInDark |-> Absent,
              weather |-> Defined(w), outfitRecommendations |-> Defined(o)]
        ELSE [prev EXCEPT !.weather = Defined(w), !.outfitRecommendations = Defined(o)]

\* fetchOutfitRecommendations after its await
OutfitAnswered ==
    \E r \in inflight :
        /\ r.url = "/api/outfit-recommendations"
        /\ \E answer \in Answers :
               planner' = [planner EXCEPT
                              !.walkPlan = IF answer = "ok"
                                           THEN withOutfit(@, r.body) ELSE @,
                              !.loadingOutfit = FALSE]
        /\ inflight' = inflight \ {r}
        /\ UNCHANGED outsidePlanner

\* the result card is rendered only with a walk plan
resultShown == planner.step = "result" /\ planner.walkPlan # Null

\* "Adjust Walk Duration", offered when part of the walk is in the dark
AdjustWalkDuration ==
    /\ resultShown
    /\ planner.walkPlan.minutesWalkingInDark.defined
    /\ planner' = [planner EXCEPT !.step = "planWalk"]
    /\ UNCHANGED <<inflight, outsidePlanner>>

\* handleCheckCurrentWeather up to its await; its button sits inside the
\* block rendered once weather and outfit are there
HandleCheckCurrentWeather ==
    /\ resultShown
    /\ planner.walkPlan.weather.defined
    /\ planner.walkPlan.outfitRecommendations.defined
    /\ ~planner.checkingCurrentWeather
    /\ room
    /\ planner.selectedCity # Null
    /\ inflight' = inflight \cup
           {[url |-> "/api/check-current-weather",
             body |-> [lat |-> planner.selectedCity.lat,
                       lon |-> planner.selectedCity.lon,
                       forecastWeather |-> planner.walkPlan.weather,
                       city |-> planner.walkPlan.city,
                       temperatureUnit |-> planner.temperatureUnit,
                       speedUnit |-> planner.speedUnit,
                       originalOutfit |-> planner.walkPlan.outfitRecommendations]]}
    /\ planner' = [planner EXCEPT !.checkingCurrentWeather = TRUE]
    /\ UNCHANGED outsidePlanner

\* handleCheckCurrentWeather after its await
CurrentWeatherAnswered ==
    \E r \in inflight :
        /\ r.url = "/api/check-current-weather"
        /\ \E answer \in Answers :
               planner' = [planner EXCEPT
                              !.currentWeatherCheck =
                                  IF answer = "ok"
                                  THEN [city |-> r.body.city,
                                        temperatureUnit |-> r.body.temperatureUnit]
                                  ELSE @,
                              !.checkingCurrentWeather = FALSE]
        /\ inflight' = inflight \ {r}
        /\ UNCHANGED outsidePlanner

\* handleReset ("Plan another walk")
HandleReset ==
    /\ resultShown
    /\ planner' = [planner EXCEPT
                      !.step = "city",
                      !.cityOptions = <<>>,
                      !.selectedCity = Null,
                      !.todaySunsetInfo = Null,
                      !.hours = "0",
                      !.minutes = "30",
                      !.date = Absent,
                      !.walkPlan = Null,
                      !.loadingOutfit = FALSE,
                      !.currentWeatherCheck = Null,
                      !.temperatureUnit = "fahrenheit",
                      !.speedUnit = "mph"]
    /\ UNCHANGED <<inflight, outsidePlanner>>

NextPlanner ==
    \/ HandleCitySearch
    \/ CitySearchAnswered
    \/ HandleCitySelect
    \/ TodaySunsetAnswered
    \/ BackToCity
    \/ PlanWalk
    \/ SetHours
    \/ SetMinutes
    \/ HandleDateSelect
    \/ BackToCityConfirmed
    \/ HandleCalculate
    \/ CalculateAnswered
    \/ OutfitAnswered
    \/ AdjustWalkDuration
    \/ HandleCheckCurrentWeather
    \/ CurrentWeatherAnswered
    \/ HandleReset

SpecPlanner == InitPlanner /\ [][NextPlanner]_vars

-----------------------------------------------------------------------------
(* Properties of the planner (checked under SpecPlanner)                   *)

\* the city a "name, state, country" string names
cityNamed(name) == CHOOSE c \in Cities : c.name = name

unitsOf(country) == <<getTemperatureUnit(country), getSpeedUnit(country)>>

matchedPair(pair) == pair \in {<<"fahrenheit", "mph">>, <<"celsius", "kmh">>}

\* requests that belong to a walk plan, with the city of that plan
planRequests ==
    {r \in inflight : /\ r.url \in {"/api/calculate-walk", "/api/outfit-recommendations",
                                    "/api/check-current-weather"}
                      /\ r.url = "/api/calculate-walk" => r.handler = "handleCalculate"}

\* handleCheckCurrentWeather sends walkPlan.city, which a plan may lack
hasPlanCity(r) == r.url = "/api/check-current-weather" => r.body.city.defined
planCityOf(r) ==
    IF r.url = "/api/check-current-weather" THEN r.body.city.value ELSE r.body.city

\* C15: while a city is selected the planner's temperatureUnit and speedUnit
\* are the pair derived from that city's country, never a mixed pair, and
\* every calculate-walk, outfit-recommendations and check-current-weather
\* request issued for a plan carries the pair of that plan's city.
C15_UnitsFollowSelectedCity ==
    /\ planner.selectedCity # Null =>
           /\ <<planner.temperatureUnit, planner.speedUnit>>
                  = unitsOf(planner.selectedCity.country)
           /\ matchedPair(<<planner.temperatureUnit, planner.speedUnit>>)
    /\ \A r \in planRequests :
           hasPlanCity(r) =>
               <<r.body.temperatureUnit, r.body.speedUnit>>
                   = unitsOf(cityNamed(planCityOf(r)).country)

\* the answered request that brought the result: sent by handleCalculate for
\* a city, a date and a non-zero duration
calculationSupplied ==
    \E r \in inflight \ inflight' :
        /\ r.url = "/api/calculate-walk"
        /\ r.handler = "handleCalculate"
        /\ r.body.city \in {c.name : c \in Cities}
        /\ r.body.date \in DatesPicked
        /\ r.body.hours * 60 + r.body.minutes > 0

checkIssued ==
    \E r \in inflight' \ inflight : r.url = "/api/check-current-weather"

\* C19: under every interleaving of user actions and answers, the result
\* step is entered only from the plan-walk step, with a city selected, a
\* non-zero duration and a date; a current-weather check is issued only in
\* the result step with forecast weather and outfit present; reset returns
\* to the city step.
C19_StepMachine ==
    [][ /\ (planner'.step = "result" /\ planner.step # "result") =>
               /\ planner.step = "planWalk"
               /\ calculationSupplied
        /\ checkIssued =>
               /\ planner.step = "result"
               /\ planner.walkPlan # Null
               /\ planner.walkPlan.weather.defined
               /\ planner.walkPlan.outfitRecommendations.defined
        /\ (planner.walkPlan # Null /\ planner'.walkPlan = Null) =>
               planner'.step = "city"
      ]_vars

\* the request whose answer this step delivers
answeredIn(url) == {r \in inflight \ inflight' : r.url = url}

calculationCompleted ==
    \E r \in answeredIn("/api/calculate-walk") : r.handler = "handleCalculate"

\* C27: after reset walkPlan and currentWeatherCheck are null and stay null
\* until the user completes a new calculation, and the weather, outfit and
\* current-weather check shown for a plan come from requests issued for that
\* same plan: an answer to an outfit-recommendations or check-current-weather
\* request still in flight at reset time never re-populates the cleared
\* state or attaches to a later plan.
C27_ResetClearsForGood ==
    [][ /\ (planner.step = "result" /\ planner'.step = "city") =>
               /\ planner'.walkPlan = Null
               /\ planner'.currentWeatherCheck = Null
        /\ (planner.walkPlan = Null /\ planner'.walkPlan # Null) =>
               calculationCompleted
        /\ (planner.currentWeatherCheck = Null /\ planner'.currentWeatherCheck # Null) =>
               /\ planner.walkPlan # Null
               /\ \A r \in answeredIn("/api/check-current-weather") :
                      r.body.city = planner.walkPlan.city
        /\ (planner.walkPlan # Null /\ planner'.walkPlan # Null
                /\ planner'.walkPlan.weather # planner.walkPlan.weather) =>
               \A r \in answeredIn("/api/outfit-recommendations") :
                   Defined(r.body.city) = planner.walkPlan.city
      ]_vars

\* C28: under every interleaving of city searches/selections and their
\* sunset answers, the today's-sunset info shown belongs to the currently
\* selected city, and a late sunset answer for an earlier selection neither
\* overwrites the info of the current selection nor moves the planner back
\* from a later step to the city-confirmed step.
C28_SunsetInfoOfSelectedCity ==
    [][ /\ (planner'.todaySunsetInfo # Null /\ planner'.selectedCity # Null) =>
               planner'.todaySunsetInfo.sunsetTime
                   = sunsetTimeIn(planner'.selectedCity.name)
        /\ (planner.step \in {"planWalk", "result"}
                /\ planner'.step = "cityConfirmed") =>
               answeredIn("/api/calculate-walk") = {}
      ]_vars

-----------------------------------------------------------------------------
(* outfit-recommendations route (page.tsx).  Instants are minutes counted  *)
(* from 00:00 UTC of the first day of the forecast; a date "yyyy-MM-dd" is *)
(* the number of its day, counted from that day; the start time is a       *)
(* sequence of characters, as the route takes it apart.                    *)

\* how many days of hourly entries the provider answers with, at most
SeriesDays == 2

\* String.prototype.split for a single-character separator
RECURSIVE split(_, _)
split(s, sep) ==
    IF \E i \in DOMAIN s : s[i] = sep
    THEN LET i == CHOOSE k \in DOMAIN s : s[k] = sep /\ \A j \in 1..(k - 1) : s[j] # sep
         IN  <<SubSeq(s, 1, i - 1)>> \o split(SubSeq(s, i + 1, Len(s)), sep)
    ELSE <<s>>

digit(c) ==
    CASE c = "0" -> 0 [] c = "1" -> 1 [] c = "2" -> 2 [] c = "3" -> 3 [] c = "4" -> 4
      [] c = "5" -> 5 [] c = "6" -> 6 [] c = "7" -> 7 [] c = "8" -> 8 [] c = "9" -> 9

\* Number(s) for a string of decimal digits
RECURSIVE Number(_)
Number(s) ==
    IF s = <<>> THEN 0 ELSE 10 * Number(SubSeq(s, 1, Len(s) - 1)) + digit(s[Len(s)])

\* the hour of the day the route reads from startTime
hours24(startTime) ==
    LET parts == split(startTime, " ")
        period == IF Len(parts) > 1 THEN parts[2] ELSE <<>>
        hours == Number(split(parts[1], ":")[1])
    IN  IF period = <<"P","M">> /\ hours # 12 THEN hours + 12
        ELSE IF period = <<"A","M">> /\ hours = 12 THEN 0
        ELSE hours

\* new Date("yyyy-MM-dd"): midnight UTC of the day
parseDate(day) == day * 1440

\* new Date("yyyy-MM-ddTHH:00"): the wall-clock time of a server whose clock
\* is `offset` minutes ahead of UTC
parseLocal(t, offset) == t.day * 1440 + t.hour * 60 - offset

\* Date.prototype.setHours(hours, 0, 0, 0) on such a server
setHours(instant, hours, offset) ==
    ((instant + offset) \div 1440) * 1440 + hours * 60 - offset

\* hourlyTimes.findIndex(t => new Date(t) >= targetDateTime)
findIndex(hourlyTimes, targetDateTime, offset) ==
    IF \E i \in DOMAIN hourlyTimes : parseLocal(hourlyTimes[i], offset) >= targetDateTime
    THEN (CHOOSE i \in DOMAIN hourlyTimes :
              /\ parseLocal(hourlyTimes[i], offset) >= targetDateTime
              /\ \A j \in 1..(i - 1) : parseLocal(hourlyTimes[j], offset) < targetDateTime) - 1
    ELSE 0 - 1

\* the index into the hourly arrays the route settles on
hourIndex(body, hourly, offset) ==
    LET targetDateTime == setHours(parseDate(body.date.value),
                                   hours24(body.startTime.value), offset)
        targetIndex == findIndex(hourly.time, targetDateTime, offset)
    IN  IF targetIndex >= 0 THEN targetIndex ELSE 0

\* the snapshot the route extracts at a (0-based) index
weatherAt(hourly, index) ==
    [temperature   |-> round(hourly.temperature_2m[index + 1]),
     condition     |-> getWeatherCondition_forecast(hourly.weather_code[index + 1]),
     precipitation |-> hourly.precipitation_probability[index + 1],
     windSpeed     |-> round(hourly.wind_speed_10m[index + 1])]

\* POST of the route: body is the parsed request, up the provider's answer
\* and the offset of the server's clock
POST_outfitRecommendations(body, up) ==
    IF notNumber(body.lat) \/ notNumber(body.lon)
       \/ ~body.date.defined \/ notString(body.startTime)
    THEN [status |-> 400, error |-> "Missing required parameters", fetches |-> 0]
    ELSE
    LET tempUnitParam == IF body.temperatureUnit = "celsius" THEN "celsius" ELSE "fahrenheit"
        speedUnitParam == IF body.speedUnit = "kmh" THEN "kmh" ELSE "mph"
        w == weatherAt(up.forecast.hourly,
                       hourIndex(body, up.forecast.hourly, up.serverOffset))
    IN  IF up.forecast.outcome # "ok"
        THEN [status |-> 500,
              error |-> "Failed to fetch recommendations: "
                            \o fetchError(up.forecast.outcome, "Failed to fetch weather data"),
              fetches |-> 1]
        ELSE [status |-> 200,
              weather |-> w,
              recommendations |->
                  generateOutfitRecommendations(w, tempUnitParam, speedUnitParam),
              fetches |-> 1]

\* start times as calculate-walk formats them, with the minute of the day
\* each one names
StartTimes ==
    {[text |-> <<"1","2",":","0","5"," ","A","M">>, minute |-> 5],
     [text |-> <<"5",":","1","5"," ","A","M">>, minute |-> 315],
     [text |-> <<"1","2",":","3","0"," ","P","M">>, minute |-> 750],
     [text |-> <<"6",":","0","0"," ","P","M">>, minute |-> 1080],
     [text |-> <<"6",":","4","5"," ","P","M">>, minute |-> 1125],
     [text |-> <<"1","1",":","0","0"," ","P","M">>, minute |-> 1380]}

\* days the planner can ask for: the forecast's days and the day after them
RequestDays == 0..SeriesDays

\* minutes the server's clock is ahead of UTC
ServerOffsets == {0 - 300, 0, 60}

\* an hourly answer of the provider: `days` days from 00:00 of day 0, every
\* hour with a temperature of its own
hourlySeries(days, codes) ==
    [time                      |-> [i \in 1..(24 * days) |->
                                       [day |-> (i - 1) \div 24, hour |-> (i - 1) % 24]],
     temperature_2m            |-> [i \in 1..(24 * days) |-> 296 + 10 * i],
     precipitation_probability |-> [i \in 1..(24 * days) |-> (7 * i) % 60],
     wind_speed_10m            |-> [i \in 1..(24 * days) |-> 100 + 40 * (i % 5)],
     weather_code              |-> [i \in 1..(24 * days) |-> codes[1 + (i % Len(codes))]]]

HourlyAnswers ==
    {hourlySeries(days, codes) : days \in 1..SeriesDays, codes \in {<<0, 3>>, <<61, 71, 2>>}}

OutfitBodies ==
    [lat : {Absent, Defined(0), Defined(45)},
     lon : {Absent, Defined(0), Defined(10)},
     date : {Absent} \cup {Defined(d) : d \in RequestDays},
     startTime : {Absent} \cup {Defined(s.text) : s \in StartTimes},
     temperatureUnit : TempUnits,
     speedUnit : SpeedUnits]

InitOutfitRoute ==
    /\ pc = "idle"
    /\ request \in {b \in OutfitBodies :
                      /\ b.speedUnit = (IF b.temperatureUnit = "celsius" THEN "kmh" ELSE "mph")
                      /\ Cardinality({f \in {"lat", "lon", "date", "startTime"} :
                                          ~b[f].defined}) <= 1}
    /\ upstream \in [forecast : [outcome : FetchOutcomes, hourly : HourlyAnswers],
                     serverOffset : ServerOffsets]
    /\ response = NoResponse
    /\ weather = NoWeather
    /\ tempUnit = "fahrenheit"
    /\ speedUnit = "mph"
    /\ recommendations = EmptyLists
    /\ code = 0
    /\ condition = NoCondition
    /\ forecast = NoWeather
    /\ current = NoWeather
    /\ comparison = NoComparison
    /\ decision = NoDecision
    /\ planner = NoPlanner
    /\ inflight = {}

\* one request served by the route
OutfitRoute ==
    /\ pc = "idle"
    /\ response' = POST_outfitRecommendations(request, upstream)
    /\ pc' = "outfit"
    /\ UNCHANGED <<weather, tempUnit, speedUnit, recommendations, code, condition,
                   forecast, current, comparison, decision, request, planner,
                   inflight, upstream>>

NextOutfitRoute == OutfitRoute

SpecOutfitRoute == InitOutfitRoute /\ [][NextOutfitRoute]_vars

-----------------------------------------------------------------------------
(* Properties of the outfit-recommendations route (SpecOutfitRoute)        *)

outfitServed == pc = "outfit" /\ response.status = 200

\* the requested walk start on the wall clock of the walk's location, in
\* minutes from 00:00 of day 0 (the clock the provider's timestamps use)
requestedStart ==
    request.date.value * 1440
        + (CHOOSE s \in StartTimes : s.text = request.startTime.value).minute

wallClock(t) == t.day * 1440 + t.hour * 60

atOrAfterStart(i) == wallClock(upstream.forecast.hourly.time[i]) >= requestedStart

\* C22: the forecast snapshot used for the outfit is the entry at the first
\* hourly index whose timestamp is at or after the requested walk start time
\* ('h:mm AM/PM' on the requested date), for every start time and series.
C22_FirstHourAtOrAfterStart ==
    outfitServed =>
        \E i \in DOMAIN upstream.forecast.hourly.time :
            /\ atOrAfterStart(i)
            /\ \A j \in 1..(i - 1) : ~atOrAfterStart(j)
            /\ response.weather = weatherAt(upstream.forecast.hourly, i - 1)

-----------------------------------------------------------------------------
(* getGranularWeatherFactors with the hourly UV-index series               *)
(* (weather-server.ts).  `now` is the instant of the call in minutes from  *)
(* 00:00 UTC; UV values are held in hundredths, the reported uvIndex in    *)
(* tenths.  With timezone=auto the series starts at 00:00 on the wall      *)
(* clock of the requested location.                                        *)

\* Date.prototype.getHours on a machine whose clock is `offset` minutes
\* ahead of UTC
getHours(now, offset) == ((now + offset) \div 60) % 24

\* data.hourly.uv_index[currentHour] || 0, read at a 0-based index
uvAt(uv_index, currentHour) ==
    IF currentHour + 1 \in DOMAIN uv_index THEN uv_index[currentHour + 1] ELSE 0

\* uvIndex of the result: Math.round(uvIndex * 10) / 10
granularUvIndex(hourly, now, serverOffset) ==
    round(uvAt(hourly.uv_index, getHours(now, serverOffset)))

\* getGranularWeatherFactors: the factors of the current block and the UV index
granularWeatherFactors(params, up) ==
    IF up.outcome # "ok"
    THEN [error |-> fetchError(up.outcome, "Failed to fetch granular weather data")]
    ELSE LET g == getGranularWeatherFactors(up.data.current, params.tempUnit)
         IN  [windChill |-> g.windChill,
              humidity  |-> g.humidity,
              uvIndex   |-> granularUvIndex(up.data.hourly, up.now, up.serverOffset),
              feelsLike |-> g.feelsLike]

\* how many days of hourly UV entries the provider answers with, at most
UvSeriesDays == 2

\* an hourly UV series of `days` days, every hour with a value of its own
uvSeries(days) == [i \in 1..(24 * days) |-> 13 * i + 2]

\* instants of the call, in minutes from 00:00 UTC
CallInstants == {0, 59, 60, 720, 1125, 1439}

\* minutes the wall clock of the requested location is ahead of UTC
LocationOffsets == {0 - 300, 0, 330}

InitGranular ==
    /\ pc = "idle"
    /\ request \in [lat : {40}, lon : {10}, tempUnit : TempUnits]
    /\ upstream \in [outcome : FetchOutcomes,
                     data : [current : {[temperature_2m |-> 600, apparent_temperature |-> 580,
                                         precipitation |-> 0, wind_speed_10m |-> 120,
                                         weather_code |-> 3, relative_humidity_2m |-> 70]},
                             hourly : {[uv_index |-> uvSeries(days)] :
                                           days \in 1..UvSeriesDays}],
                     now : CallInstants,
                     serverOffset : ServerOffsets,
                     locationOffset : LocationOffsets]
    /\ response = NoResponse
    /\ weather = NoWeather
    /\ tempUnit = "fahrenheit"
    /\ speedUnit = "mph"
    /\ recommendations = EmptyLists
    /\ code = 0
    /\ condition = NoCondition
    /\ forecast = NoWeather
    /\ current = NoWeather
    /\ comparison = NoComparison
    /\ decision = NoDecision
    /\ planner = NoPlanner
    /\ inflight = {}

\* one call of the tool
GetGranularWeatherFactors ==
    /\ pc = "idle"
    /\ response' = granularWeatherFactors(request, upstream)
    /\ pc' = "granular"
    /\ UNCHANGED <<weather, tempUnit, speedUnit, recommendations, code, condition,
                   forecast, current, comparison, decision, request, planner,
                   inflight, upstream>>

NextGranular == GetGranularWeatherFactors

SpecGranular == InitGranular /\ [][NextGranular]_vars

\* the hour on the wall clock of the requested location
localHour == ((upstream.now + upstream.locationOffset) \div 60) % 24

\* C23: the uvIndex reported by getGranularWeatherFactors is the entry of the
\* hourly UV-index series for the current local hour at the requested
\* location, whatever the clock of the machine and the length of the series.
C23_UvIndexOfLocalHour ==
    (pc = "granular" /\ upstream.outcome = "ok") =>
        response.uvIndex = (upstream.data.hourly.uv_index[localHour + 1] + 5) \div 10

-----------------------------------------------------------------------------
(* Validation of the three routes                                          *)

routeAnswered == pc \in {"walk", "checked", "outfit"}

\* a field the route that answered requires is absent from the request
requiredFieldAbsent ==
    CASE pc = "walk" ->
             \/ ~request.lat.defined \/ ~request.lon.defined \/ ~request.date.defined
             \/ (~request.hours.defined /\ ~request.minutes.defined)
      [] pc = "outfit" ->
             \/ ~request.lat.defined \/ ~request.lon.defined
             \/ ~request.date.defined \/ ~request.startTime.defined
      [] pc = "checked" ->
             \/ ~request.lat.defined \/ ~request.lon.defined
             \/ ~request.forecastWeather.defined \/ ~request.originalOutfit.defined

\* C30: the calculate-walk, outfit-recommendations and check-current-weather
\* routes answer 400 'Missing required parameters' only when a required field
\* is actually absent, and they reject before any upstream call is made; a
\* request carrying every required field with numerically valid coordinates,
\* including latitude 0 or longitude 0, is accepted and computed.
C30_RejectsOnlyAbsentFields ==
    routeAnswered =>
        /\ response.status = 400 =>
               /\ response.error = "Missing required parameters"
               /\ requiredFieldAbsent
               /\ response.fetches = 0
        /\ ~requiredFieldAbsent => response.status # 400

====
